---- MODULE Spec2Model ----
(***************************************************************************)
(* Flag resolution of the feature-flag backend: Identity.get_all_feature_  *)
(* states with the environment's override-segments cache, Environment.     *)
(* get_hide_disabled_flags, Identity.update_traits (as one step and        *)
(* statement by statement for concurrent requests), the identify request,  *)
(* Environment.create_feature_states and Environment.clone, the segment    *)
(* rules with the percentage split, and the multivariate value; and, next  *)
(* to the engine, Environment.get_from_cache with the update of an         *)
(* environment, the users and permission groups, the task processor and    *)
(* the DynamoProjectMetadata of the identity migration.                    *)
(*                                                                         *)
(* A null foreign key or a null version is 0; a nullable boolean is one    *)
(* of the strings "None", "True", "False".                                 *)
(***************************************************************************)
EXTENDS Integers, Sequences, FiniteSets, TLC

\* ------------------------------------------------------------------------
\* Bounds of the model
\* ------------------------------------------------------------------------

\* most FeatureState rows in the table
MaxRows == 3
\* most items of one update_traits batch
MaxBatch == 2

None == 0

Environments == {1, 2}
Features == {1, 2}
Identities == {1, 2}
SegmentIds == {1, 2}
TraitKeys == {"plan", "a"}
TraitValues == {"pro", "free"}
NullableBool == {"None", "True", "False"}
\* the values of timezone.now()
Times == {0, 1}

\* Identity.environment: both identities live in environment 1, environment 2
\* is another environment of the same project
IdentityEnvironment == [i \in Identities |-> 1]

VARIABLES
    feature_states,      \* the FeatureState table: a set of rows
    feature_segments,    \* the FeatureSegment table: a set of rows
    segments,            \* the Segment table: segment id -> its rules
    identity_traits,     \* the Trait table: identity -> (trait_key -> trait_value)
    environments,        \* environment id -> [hide_disabled_flags, allow_client_traits]
    project,             \* [hide_disabled_flags, prevent_flag_defaults] of the one project
    organisation,        \* [persist_trait_data] of the one organisation
    environment_segments_cache, \* cache key (environment id) -> list of segments
    now,                 \* timezone.now()
    result,              \* what the last get_all_feature_states call returned
    trait_result,        \* what the last update_traits call was given and returned
    requests,            \* the update_traits calls in progress: request -> its locals
    response,            \* what the last other request was given and returned
    environment_cache,   \* cache key (api key) -> [environment, timeout]
    user_organisations,  \* the UserOrganisation table: a set of rows
    permission_group_users, \* UserPermissionGroup.users: group -> list of user ids
    tasks,               \* the Task table: task id -> row
    recurring_tasks,     \* the RecurringTask table: task id -> row
    project_metadata,    \* the DynamoProjectMetadata objects: project id -> fields
    project_metadata_table \* the DynamoDB table: project id -> saved item

vars == <<feature_states, feature_segments, segments, identity_traits,
          environments, project, organisation, environment_segments_cache, now,
          result, trait_result, requests, response, environment_cache,
          user_organisations, permission_group_users, tasks, recurring_tasks,
          project_metadata, project_metadata_table>>

database == <<feature_states, feature_segments, segments, identity_traits,
              environments, project, organisation>>

\* the state of the apps users, task_processor and environments.dynamodb
other_apps == <<user_organisations, permission_group_users, tasks, recurring_tasks,
                project_metadata, project_metadata_table>>

\* ------------------------------------------------------------------------
\* Helpers over sequences and functions
\* ------------------------------------------------------------------------

Range(s) == {s[i] : i \in DOMAIN s}

\* every order in which the rows of a table can be iterated
Orders(S) == {s \in [1..Cardinality(S) -> S] : Range(s) = S}

Repeat(x, n) == [i \in 1..n |-> x]

\* a dict as a function with a finite domain
Put(d, k, v) == [x \in (DOMAIN d) \cup {k} |-> IF x = k THEN v ELSE d[x]]
Del(d, ks) == [x \in (DOMAIN d) \ ks |-> d[x]]
EmptyDict == [x \in {} |-> None]

\* ------------------------------------------------------------------------
\* Rows
\* ------------------------------------------------------------------------

FeatureStateRow(f, e, i, g, en, v, lf) ==
    [feature |-> f, environment |-> e, identity |-> i, feature_segment |-> g,
     enabled |-> en, version |-> v, live_from |-> lf]

FeatureSegmentRow(id, s, e, f, p) ==
    [id |-> id, segment |-> s, environment |-> e, feature |-> f, priority |-> p]

\* the fields of Environment and of Project that the model reads; the defaults
\* are allow_client_traits = True and prevent_flag_defaults = False
EnvironmentRow(hide, allow) == [hide_disabled_flags |-> hide, allow_client_traits |-> allow]
ProjectRow(hide, prevent) == [hide_disabled_flags |-> hide, prevent_flag_defaults |-> prevent]

Condition(op, prop, val) == [operator |-> op, property |-> prop, value |-> val]

SegmentRule(type, conds, rules) == [type |-> type, conditions |-> conds, rules |-> rules]

\* the feature segments of the model: two of environment 1 with the priorities
\* 1 and 2, and one of environment 2
InitialFeatureSegments ==
    {FeatureSegmentRow(1, 1, 1, 1, 1),
     FeatureSegmentRow(2, 2, 1, 1, 2),
     FeatureSegmentRow(3, 1, 2, 1, 0)}

\* segment 1: plan = pro;   segment 2: plan = pro or plan = free
InitialSegments ==
    [s \in SegmentIds |->
        IF s = 1
        THEN <<SegmentRule("ALL", <<Condition("EQUAL", "plan", "pro")>>, <<>>)>>
        ELSE <<SegmentRule("ANY", <<Condition("EQUAL", "plan", "pro"),
                                    Condition("EQUAL", "plan", "free")>>, <<>>)>>]

\* the rows FeatureState.objects.create is called with
DefaultRows ==
    {FeatureStateRow(1, 1, None, None, en, 1, 0) : en \in BOOLEAN}
        \cup {FeatureStateRow(2, 1, None, None, TRUE, 1, 0)}
SegmentOverrideRows ==
    {FeatureStateRow(1, 1, None, g, TRUE, 1, 0) : g \in {1, 2}}
IdentityOverrideRows ==
    {FeatureStateRow(1, 1, 1, None, en, 1, 0) : en \in BOOLEAN}
        \cup {FeatureStateRow(1, 1, 2, None, TRUE, 1, 0)}
\* a draft identity override and a segment override scheduled for time 1
NotLiveRows ==
    {FeatureStateRow(1, 1, 1, None, TRUE, None, 0),
     FeatureStateRow(1, 1, None, 1, TRUE, 1, 1)}
\* a default of environment 2, and a row of environment 1 whose feature
\* segment is the one of environment 2
ForeignRows ==
    {FeatureStateRow(1, 2, None, None, TRUE, 1, 0),
     FeatureStateRow(1, 1, None, 3, TRUE, 1, 0)}

FeatureStateRows ==
    DefaultRows \cup SegmentOverrideRows \cup IdentityOverrideRows
        \cup NotLiveRows \cup ForeignRows

\* the rows of the specification with hide_disabled_flags: enabled and
\* disabled states of the three tiers, live and of environment 1
HideRows ==
    {FeatureStateRow(f, 1, None, None, en, 1, 0) : f \in Features, en \in BOOLEAN}
        \cup {FeatureStateRow(1, 1, None, 1, en, 1, 0) : en \in BOOLEAN}
        \cup {FeatureStateRow(1, 1, 1, None, en, 1, 0) : en \in BOOLEAN}

\* Trait.generate_trait_value_data (traits/models.py): the typed columns of a
\* value; the values of the model are strings
generate_trait_value_data(value) == [value_type |-> "STRING", string_value |-> value]

\* Trait.trait_value: the value read back from the typed columns
trait_value(trait) ==
    IF trait.value_type = "STRING" THEN trait.string_value ELSE "null"

\* the traits argument of a call: None, or a list of traits (keyed on trait_key)
NoTraits == [is_none |-> TRUE, items |-> EmptyDict]
TraitList(d) == [is_none |-> FALSE, items |-> d]
TraitArguments ==
    {NoTraits, TraitList(EmptyDict),
     TraitList(Put(EmptyDict, "plan", generate_trait_value_data("free")))}

\* trait_value null in a trait data item
NullValue == "null"
TraitDataItems ==
    [trait_key : TraitKeys, trait_value : TraitValues \cup {NullValue}]
\* the lists of trait data items update_traits is called with
Batches == UNION {[1..n -> TraitDataItems] : n \in 0..MaxBatch}

NoCall == [called |-> FALSE]

\* the requests that call update_traits at the same time
Requests == {1, 2}
Idle == [pc |-> "idle"]
NoRequests == [r \in Requests |-> Idle]

\* ------------------------------------------------------------------------
\* Segment.does_identity_match (segments/models.py)
\* ------------------------------------------------------------------------

\* Hasher.percentage(ids): a number of 0..99 computed from the identifiers in
\* their order
RECURSIVE hashed_value(_, _)
hashed_value(object_ids, k) ==
    IF k > Len(object_ids) THEN 0
    ELSE (61 * hashed_value(object_ids, k + 1) + 37 * object_ids[k]) % 9999

get_hashed_percentage_for_object_ids(object_ids) ==
    (13 * hashed_value(object_ids, 1)) % 100

\* the percentage split with the value itself inside the split
condition_matches_inclusive(condition, segment_id, i, traits) ==
    /\ condition.operator = "PERCENTAGE_SPLIT"
    /\ get_hashed_percentage_for_object_ids(<<segment_id, i>>) <= condition.value

\* a condition of a rule of segment segment_id, for identity i with the traits
condition_matches(condition, segment_id, i, traits) ==
    CASE condition.operator = "EQUAL" ->
            /\ condition.property \in DOMAIN traits
            /\ trait_value(traits[condition.property]) = condition.value
      [] condition.operator = "NOT_EQUAL" ->
            /\ condition.property \in DOMAIN traits
            /\ trait_value(traits[condition.property]) # condition.value
      [] condition.operator = "IS_SET" -> condition.property \in DOMAIN traits
      [] condition.operator = "IS_NOT_SET" -> condition.property \notin DOMAIN traits
      [] condition.operator = "PERCENTAGE_SPLIT" ->
            get_hashed_percentage_for_object_ids(<<segment_id, i>>) < condition.value
      [] OTHER -> FALSE

\* a rule that looks at its conditions only
rule_matches_conditions_only(rule, segment_id, i, traits) ==
    LET conds == {condition_matches(rule.conditions[k], segment_id, i, traits) :
                    k \in DOMAIN rule.conditions}
    IN  IF conds = {} THEN TRUE
        ELSE CASE rule.type = "ALL" -> FALSE \notin conds
               [] rule.type = "ANY" -> TRUE \in conds
               [] rule.type = "NONE" -> TRUE \notin conds
               [] OTHER -> FALSE

RECURSIVE rule_matches(_, _, _, _)
rule_matches(rule, segment_id, i, traits) ==
    LET conds == {condition_matches(rule.conditions[k], segment_id, i, traits) :
                    k \in DOMAIN rule.conditions}
        kids == {rule_matches(rule.rules[k], segment_id, i, traits) :
                    k \in DOMAIN rule.rules}
    IN  IF conds = {} /\ kids = {} THEN TRUE
        ELSE CASE rule.type = "ALL" -> FALSE \notin (conds \cup kids)
               [] rule.type = "ANY" -> TRUE \in (conds \cup kids)
               [] rule.type = "NONE" -> TRUE \notin conds /\ FALSE \notin kids
               [] OTHER -> FALSE

does_identity_match(segment, i, traits) ==
    \A k \in DOMAIN segment.rules :
        rule_matches(segment.rules[k], segment.id, i, traits)

\* ------------------------------------------------------------------------
\* Environment.get_segments_from_cache
\* ------------------------------------------------------------------------

\* Segment.objects.filter(feature_segments__feature_states__environment=e):
\* one Segment per joined (feature segment, feature state) row
override_join(e, s) ==
    {<<g, fs>> \in feature_segments \X feature_states :
        g.segment = s /\ fs.feature_segment = g.id /\ fs.environment = e}

RECURSIVE segments_list(_, _)
segments_list(e, ids) ==
    IF ids = {} THEN <<>>
    ELSE LET s == CHOOSE x \in ids : \A y \in ids : x <= y
         IN  Repeat([id |-> s, rules |-> segments[s]], Cardinality(override_join(e, s)))
                \o segments_list(e, ids \ {s})

segments_with_override(e) == segments_list(e, SegmentIds)

\* environment_segments_cache.get(self.id): None and [] are both "not segments"
cache_get(cache, e) == IF e \in DOMAIN cache THEN cache[e] ELSE <<>>

\* the list get_segments_from_cache returns
get_segments_from_cache(cache, e) ==
    IF cache_get(cache, e) # <<>> THEN cache_get(cache, e) ELSE segments_with_override(e)

\* the cache written on a hit too
cache_always_set(cache, e) == Put(cache, e, segments_with_override(e))

\* the cache after get_segments_from_cache
cache_after_get_segments(cache, e) ==
    IF cache_get(cache, e) # <<>> THEN cache ELSE Put(cache, e, segments_with_override(e))

\* ------------------------------------------------------------------------
\* Identity.get_segments(traits, overrides_only=True)
\* ------------------------------------------------------------------------

traits_for_call(i, traits) ==
    IF traits.is_none THEN identity_traits[i] ELSE traits.items

get_segments(cache, i, traits) ==
    LET all_segments == get_segments_from_cache(cache, IdentityEnvironment[i])
        used_traits == traits_for_call(i, traits)
    IN  SelectSeq(all_segments,
                  LAMBDA segment : does_identity_match(segment, i, used_traits))

\* ------------------------------------------------------------------------
\* FeatureState.__gt__ (features/models.py): the priority order of two states
\* of one feature
\* ------------------------------------------------------------------------

feature_segment_of(fs) == CHOOSE g \in feature_segments : g.id = fs.feature_segment

\* identity-override 3, segment-override 2, environment-default 1; a row with
\* both an identity and a feature segment ranks as an identity-override
priority_tier(fs) ==
    IF fs.identity # None THEN 3 ELSE IF fs.feature_segment # None THEN 2 ELSE 1

FeatureState_gt(flag, other) ==
    \/ priority_tier(flag) > priority_tier(other)
    \/ /\ priority_tier(flag) = 2
       /\ priority_tier(other) = 2
       /\ \/ feature_segment_of(flag).priority < feature_segment_of(other).priority
          \/ /\ feature_segment_of(flag).priority = feature_segment_of(other).priority
             /\ feature_segment_of(flag).id < feature_segment_of(other).id

\* ------------------------------------------------------------------------
\* Environment.get_hide_disabled_flags
\* ------------------------------------------------------------------------

\* the environment's value tested for truth instead of for None
get_hide_disabled_flags_truthy(e) ==
    IF environments[e].hide_disabled_flags = "True" \/ project.hide_disabled_flags
    THEN "True" ELSE "False"

get_hide_disabled_flags(e) ==
    IF environments[e].hide_disabled_flags # "None"
    THEN environments[e].hide_disabled_flags
    ELSE IF project.hide_disabled_flags THEN "True" ELSE "False"

\* ------------------------------------------------------------------------
\* Identity.get_all_feature_states
\* ------------------------------------------------------------------------

\* the query without version__isnull=False
only_live_versions_query_any_version(fs, t) == fs.live_from <= t

only_live_versions_query(fs, t) == fs.live_from <= t /\ fs.version # None

belongs_to_environment_query(fs, i) == fs.environment = IdentityEnvironment[i]

overridden_for_identity_query(fs, i) == fs.identity = i

overridden_for_segment_query(fs, i, segs) ==
    /\ fs.feature_segment # None
    /\ \E k \in DOMAIN segs : segs[k].id = feature_segment_of(fs).segment
    /\ feature_segment_of(fs).environment = IdentityEnvironment[i]

environment_default_query(fs) == fs.identity = None /\ fs.feature_segment = None

full_query(fs, i, segs, t) ==
    /\ only_live_versions_query(fs, t)
    /\ belongs_to_environment_query(fs, i)
    /\ \/ overridden_for_identity_query(fs, i)
       \/ overridden_for_segment_query(fs, i, segs)
       \/ environment_default_query(fs)

\* the rows of the query, in the order the database returns them in
all_flags(order, i, segs, t) ==
    SelectSeq(order, LAMBDA fs : full_query(fs, i, segs, t))

\* The database returns the rows of the query in an order of its choice. The
\* rows that fail a part of the query that does not depend on the segments
\* are in no result, and an order ranges over the others.
returnable_rows(i, t) ==
    {fs \in feature_states :
        /\ only_live_versions_query(fs, t)
        /\ belongs_to_environment_query(fs, i)
        /\ \/ overridden_for_identity_query(fs, i)
           \/ fs.feature_segment # None
           \/ environment_default_query(fs)}

\* the loop with the comparison left out: the first state seen of a feature stays
RECURSIVE identity_flags_keep_first(_, _, _)
identity_flags_keep_first(flags, k, acc) ==
    IF k > Len(flags) THEN acc
    ELSE IF \E j \in DOMAIN acc : acc[j].feature = flags[k].feature
         THEN identity_flags_keep_first(flags, k + 1, acc)
         ELSE identity_flags_keep_first(flags, k + 1, Append(acc, flags[k]))

\* the loop with the higher state added to the list instead of replacing
RECURSIVE identity_flags_append(_, _, _)
identity_flags_append(flags, k, acc) ==
    IF k > Len(flags) THEN acc
    ELSE IF \E j \in DOMAIN acc :
                acc[j].feature = flags[k].feature /\ ~FeatureState_gt(flags[k], acc[j])
         THEN identity_flags_append(flags, k + 1, acc)
         ELSE identity_flags_append(flags, k + 1, Append(acc, flags[k]))

\* the loop over all_flags: identity_flags is a dict keyed on the feature, here
\* the list of its values in insertion order
RECURSIVE identity_flags(_, _, _)
identity_flags(flags, k, acc) ==
    IF k > Len(flags) THEN acc
    ELSE LET flag == flags[k]
             at == {j \in DOMAIN acc : acc[j].feature = flag.feature}
         IN  IF at = {}
             THEN identity_flags(flags, k + 1, Append(acc, flag))
             ELSE LET j == CHOOSE x \in at : TRUE
                  IN  IF FeatureState_gt(flag, acc[j])
                      THEN identity_flags(flags, k + 1, [acc EXCEPT ![j] = flag])
                      ELSE identity_flags(flags, k + 1, acc)

\* the disabled states filtered out before the loop instead of after it
returned_flags_filter_first(cache, i, traits, order) ==
    LET segs == get_segments(cache, i, traits)
        flags == all_flags(order, i, segs, now)
    IN  IF get_hide_disabled_flags(IdentityEnvironment[i]) = "True"
        THEN identity_flags(SelectSeq(flags, LAMBDA value : value.enabled), 1, <<>>)
        ELSE identity_flags(flags, 1, <<>>)

\* the list the method returns when the cache holds `cache` and the rows are
\* iterated in `order`
returned_flags(cache, i, traits, order) ==
    LET segs == get_segments(cache, i, traits)
        chosen == identity_flags(all_flags(order, i, segs, now), 1, <<>>)
    IN  IF get_hide_disabled_flags(IdentityEnvironment[i]) = "True"
        THEN SelectSeq(chosen, LAMBDA value : value.enabled)
        ELSE chosen

\* the rows of the query and the segments the identity was found to match
candidate_rows(cache, i, traits) ==
    LET segs == get_segments(cache, i, traits)
    IN  {fs \in feature_states : full_query(fs, i, segs, now)}

matched_segments(cache, i, traits) ==
    {segment.id : segment \in Range(get_segments(cache, i, traits))}

\* what a call returns and what it saw on the way
feature_states_result(i, traits, order) ==
    [called |-> TRUE, identity |-> i, traits |-> traits,
     flags |-> returned_flags(environment_segments_cache, i, traits, order),
     candidates |-> candidate_rows(environment_segments_cache, i, traits),
     segments |-> matched_segments(environment_segments_cache, i, traits),
     hide_disabled_flags |-> get_hide_disabled_flags(IdentityEnvironment[i]),
     cache_hit |-> cache_get(environment_segments_cache, IdentityEnvironment[i]) # <<>>]

get_all_feature_states(i, traits, order) ==
    /\ result' = feature_states_result(i, traits, order)
    /\ environment_segments_cache' =
            cache_after_get_segments(environment_segments_cache, IdentityEnvironment[i])
    /\ UNCHANGED <<environment_cache, other_apps>>
    /\ UNCHANGED <<database, now, trait_result, requests, response>>

\* ------------------------------------------------------------------------
\* Identity.update_traits
\* ------------------------------------------------------------------------

\* the loop over trait_data_items. current_traits: the Trait objects read at
\* the start, keyed on trait_key, as the loop has changed them; updated: the
\* keys of the objects in updated_traits; new_traits: the objects to create
RECURSIVE update_traits_loop(_, _, _)
update_traits_loop(items, k, st) ==
    IF k > Len(items) THEN st
    ELSE LET trait_key == items[k].trait_key
             value == items[k].trait_value
         IN  IF value = NullValue
             THEN update_traits_loop(items, k + 1,
                    [st EXCEPT !.keys_to_delete = @ \cup {trait_key}])
             ELSE IF trait_key \in DOMAIN st.current_traits
             THEN IF trait_value(st.current_traits[trait_key]) = value
                  THEN update_traits_loop(items, k + 1, st)
                  ELSE update_traits_loop(items, k + 1,
                        [st EXCEPT
                            !.current_traits[trait_key] = generate_trait_value_data(value),
                            !.updated = @ \cup {trait_key}])
             ELSE update_traits_loop(items, k + 1,
                    [st EXCEPT !.new_traits =
                        Append(@, [trait_key |-> trait_key,
                                   data |-> generate_trait_value_data(value)])])

\* the delete without the trait_key__in filter
delete_all_traits(stored, keys_to_delete) ==
    IF keys_to_delete # {} THEN EmptyDict ELSE stored

\* self.identity_traits.filter(trait_key__in=keys_to_delete).delete()
delete_nulled_traits(stored, keys_to_delete) ==
    IF keys_to_delete # {} THEN Del(stored, keys_to_delete) ELSE stored

\* Trait.objects.bulk_update(updated_traits): the rows that still exist take
\* the values of their objects
bulk_update(stored, st) ==
    [key \in DOMAIN stored |->
        IF key \in st.updated THEN st.current_traits[key] ELSE stored[key]]

\* Trait.objects.bulk_create(new_traits, ignore_conflicts=True): a row whose
\* (identity, trait_key) exists is not inserted
RECURSIVE bulk_create(_, _, _)
bulk_create(stored, new_traits, k) ==
    IF k > Len(new_traits) THEN stored
    ELSE IF new_traits[k].trait_key \in DOMAIN stored
         THEN bulk_create(stored, new_traits, k + 1)
         ELSE bulk_create(Put(stored, new_traits[k].trait_key, new_traits[k].data),
                          new_traits, k + 1)

\* the traits of the identity after update_traits(items)
traits_after_update(stored, items) ==
    LET st == update_traits_loop(items, 1,
                [current_traits |-> stored, keys_to_delete |-> {},
                 updated |-> {}, new_traits |-> <<>>])
    IN  bulk_create(bulk_update(delete_nulled_traits(stored, st.keys_to_delete), st),
                    st.new_traits, 1)

\* every item with a value counted as a write
traits_written_every_value(stored, items) ==
    {items[k].trait_key : k \in {j \in DOMAIN items : items[j].trait_value # NullValue}}

\* the keys of the objects in updated_traits and in new_traits: the traits the
\* call writes a value of
traits_written(stored, items) ==
    LET st == update_traits_loop(items, 1,
                [current_traits |-> stored, keys_to_delete |-> {},
                 updated |-> {}, new_traits |-> <<>>])
    IN  st.updated \cup {st.new_traits[k].trait_key : k \in DOMAIN st.new_traits}

update_traits(i, items) ==
    /\ identity_traits' =
            [identity_traits EXCEPT ![i] = traits_after_update(identity_traits[i], items)]
    /\ trait_result' = [called |-> TRUE, identity |-> i, items |-> items,
                        before |-> identity_traits[i],
                        written |-> traits_written(identity_traits[i], items),
                        returned |-> traits_after_update(identity_traits[i], items)]
    /\ UNCHANGED <<environment_cache, other_apps>>
    /\ UNCHANGED <<feature_states, feature_segments, segments, environments, project,
                   organisation, environment_segments_cache, now, result, requests,
                   response>>

\* ------------------------------------------------------------------------
\* Writes of the other requests
\* ------------------------------------------------------------------------

\* FeatureState.objects.create(...)
CreateFeatureState(row) ==
    /\ Cardinality(feature_states) < MaxRows
    /\ row \notin feature_states
    /\ feature_states' = feature_states \cup {row}
    /\ result' = NoCall
    /\ response' = NoCall
    /\ UNCHANGED <<environment_cache, other_apps>>
    /\ UNCHANGED <<feature_segments, segments, identity_traits, environments, project,
                   organisation, environment_segments_cache, now, trait_result,
                   requests>>

\* an entry of environment_segments_cache times out
ExpireSegmentsCache(e) ==
    /\ e \in DOMAIN environment_segments_cache
    /\ environment_segments_cache' = Del(environment_segments_cache, {e})
    /\ result' = NoCall
    /\ UNCHANGED <<environment_cache, other_apps>>
    /\ UNCHANGED <<database, now, trait_result, requests, response>>

Tick ==
    /\ now + 1 \in Times
    /\ now' = now + 1
    /\ result' = NoCall
    /\ UNCHANGED <<environment_cache, other_apps>>
    /\ UNCHANGED <<database, environment_segments_cache, trait_result, requests,
                   response>>

\* ------------------------------------------------------------------------
\* Specification of the resolver, hide_disabled_flags off
\* ------------------------------------------------------------------------

\* nothing cached, no user, no task and no migration
InitOtherApps ==
    /\ environment_cache = EmptyDict
    /\ user_organisations = {}
    /\ permission_group_users = EmptyDict
    /\ tasks = EmptyDict
    /\ recurring_tasks = EmptyDict
    /\ project_metadata = EmptyDict
    /\ project_metadata_table = EmptyDict

InitialTraits ==
    [i \in Identities |->
        IF i = 1 THEN Put(EmptyDict, "plan", generate_trait_value_data("pro"))
        ELSE Put(EmptyDict, "plan", generate_trait_value_data("free"))]

\* the tables and caches of the flag engine
InitEngine ==
    /\ feature_states = {}
    /\ feature_segments = InitialFeatureSegments
    /\ segments = InitialSegments
    /\ identity_traits = InitialTraits
    /\ environments = [e \in Environments |-> EnvironmentRow("None", TRUE)]
    /\ project = ProjectRow(FALSE, FALSE)
    /\ organisation = [persist_trait_data |-> TRUE]
    /\ environment_segments_cache = EmptyDict
    /\ now = 0
    /\ result = NoCall
    /\ trait_result = NoCall
    /\ requests = NoRequests
    /\ response = NoCall

Init == InitEngine /\ InitOtherApps

Next ==
    \/ \E row \in FeatureStateRows : CreateFeatureState(row)
    \/ \E i \in Identities, traits \in TraitArguments :
         \E order \in Orders(returnable_rows(i, now)) :
            get_all_feature_states(i, traits, order)
    \/ \E e \in Environments : ExpireSegmentsCache(e)
    \/ Tick

Spec == Init /\ [][Next]_vars

\* ------------------------------------------------------------------------
\* Specification of the resolver with hide_disabled_flags: the environment's
\* and the project's hide_disabled_flags take every value
\* ------------------------------------------------------------------------

InitHide ==
    /\ feature_states = {}
    /\ feature_segments = InitialFeatureSegments
    /\ segments = InitialSegments
    /\ identity_traits = InitialTraits
    /\ \E h \in NullableBool :
         environments = [e \in Environments |->
                            EnvironmentRow(IF e = 1 THEN h ELSE "None", TRUE)]
    /\ \E h \in BOOLEAN : project = ProjectRow(h, FALSE)
    /\ organisation = [persist_trait_data |-> TRUE]
    /\ environment_segments_cache = EmptyDict
    /\ now = 0
    /\ result = NoCall
    /\ trait_result = NoCall
    /\ requests = NoRequests
    /\ response = NoCall
    /\ InitOtherApps

NextHide ==
    \/ \E row \in HideRows : CreateFeatureState(row)
    \/ \E i \in Identities, traits \in TraitArguments :
         \E order \in Orders(returnable_rows(i, now)) :
            get_all_feature_states(i, traits, order)
    \/ \E e \in Environments : ExpireSegmentsCache(e)

SpecHide == InitHide /\ [][NextHide]_vars

\* ------------------------------------------------------------------------
\* Specification of the trait updates
\* ------------------------------------------------------------------------

\* the identity the batches are posted for
PostingIdentities == {1}

NextTraits ==
    \E i \in PostingIdentities, items \in Batches : update_traits(i, items)

SpecTraits == Init /\ [][NextTraits]_vars

\* ------------------------------------------------------------------------
\* Identity.update_traits, statement by statement: the calls of two requests
\* for one identity interleave between their database statements
\* ------------------------------------------------------------------------

\* the batches of the concurrent requests: one item each
RaceBatches == {<<item>> : item \in TraitDataItems}

\* the IntegrityError of the unique (identity, trait_key) of Trait that an
\* insert of new_traits into the table raises
integrity_error(stored, new_traits, ignore_conflicts) ==
    /\ ~ignore_conflicts
    /\ \E k \in DOMAIN new_traits : new_traits[k].trait_key \in DOMAIN stored

\* bulk_create without ignore_conflicts
bulk_create_error_raised(stored, new_traits) == integrity_error(stored, new_traits, FALSE)

\* bulk_create(new_traits, ignore_conflicts=True)
bulk_create_error(stored, new_traits) == integrity_error(stored, new_traits, TRUE)

\* current_traits = {...self.identity_traits.all()} and the loop over the items
update_traits_read(r, i, items) ==
    /\ requests[r].pc = "idle"
    /\ requests' = [requests EXCEPT ![r] =
            [pc |-> "delete", identity |-> i, items |-> items,
             before |-> identity_traits[i],
             st |-> update_traits_loop(items, 1,
                        [current_traits |-> identity_traits[i], keys_to_delete |-> {},
                         updated |-> {}, new_traits |-> <<>>]),
             error |-> FALSE]]
    /\ UNCHANGED <<environment_cache, other_apps>>
    /\ UNCHANGED <<database, environment_segments_cache, now, result, trait_result,
                   response>>

\* self.identity_traits.filter(trait_key__in=keys_to_delete).delete()
update_traits_delete(r) ==
    /\ requests[r].pc = "delete"
    /\ identity_traits' = [identity_traits EXCEPT ![requests[r].identity] =
            delete_nulled_traits(@, requests[r].st.keys_to_delete)]
    /\ requests' = [requests EXCEPT ![r].pc = "bulk_update"]
    /\ UNCHANGED <<environment_cache, other_apps>>
    /\ UNCHANGED <<feature_states, feature_segments, segments, environments, project,
                   organisation, environment_segments_cache, now, result, trait_result,
                   response>>

\* Trait.objects.bulk_update(updated_traits, ...)
update_traits_bulk_update(r) ==
    /\ requests[r].pc = "bulk_update"
    /\ identity_traits' = [identity_traits EXCEPT ![requests[r].identity] =
            bulk_update(@, requests[r].st)]
    /\ requests' = [requests EXCEPT ![r].pc = "bulk_create"]
    /\ UNCHANGED <<environment_cache, other_apps>>
    /\ UNCHANGED <<feature_states, feature_segments, segments, environments, project,
                   organisation, environment_segments_cache, now, result, trait_result,
                   response>>

\* Trait.objects.bulk_create(new_traits, ignore_conflicts=True)
update_traits_bulk_create(r) ==
    /\ requests[r].pc = "bulk_create"
    /\ IF bulk_create_error(identity_traits[requests[r].identity],
                            requests[r].st.new_traits)
       THEN /\ requests' = [requests EXCEPT ![r].pc = "done", ![r].error = TRUE]
            /\ UNCHANGED identity_traits
       ELSE /\ identity_traits' = [identity_traits EXCEPT ![requests[r].identity] =
                    bulk_create(@, requests[r].st.new_traits, 1)]
            /\ requests' = [requests EXCEPT ![r].pc = "return"]
    /\ UNCHANGED <<environment_cache, other_apps>>
    /\ UNCHANGED <<feature_states, feature_segments, segments, environments, project,
                   organisation, environment_segments_cache, now, result, trait_result,
                   response>>

\* return self.identity_traits.all()
update_traits_return(r) ==
    /\ requests[r].pc = "return"
    /\ requests' = [requests EXCEPT ![r].pc = "done"]
    /\ UNCHANGED <<environment_cache, other_apps>>
    /\ UNCHANGED <<database, environment_segments_cache, now, result, trait_result,
                   response>>

\* the stored traits of identity 1 at the start: none, or one of the key plan
InitRace ==
    /\ feature_states = {}
    /\ feature_segments = InitialFeatureSegments
    /\ segments = InitialSegments
    /\ \E d \in {EmptyDict, InitialTraits[1]} :
         identity_traits = [InitialTraits EXCEPT ![1] = d]
    /\ environments = [e \in Environments |-> EnvironmentRow("None", TRUE)]
    /\ project = ProjectRow(FALSE, FALSE)
    /\ organisation = [persist_trait_data |-> TRUE]
    /\ environment_segments_cache = EmptyDict
    /\ now = 0
    /\ result = NoCall
    /\ trait_result = NoCall
    /\ requests = NoRequests
    /\ response = NoCall
    /\ InitOtherApps

NextRace ==
    \/ \E r \in Requests, i \in PostingIdentities, items \in RaceBatches :
         update_traits_read(r, i, items)
    \/ \E r \in Requests : update_traits_delete(r)
    \/ \E r \in Requests : update_traits_bulk_update(r)
    \/ \E r \in Requests : update_traits_bulk_create(r)
    \/ \E r \in Requests : update_traits_return(r)

SpecRace == InitRace /\ [][NextRace]_vars

\* ------------------------------------------------------------------------
\* The identify request (POST /api/v1/identities/ with identifier and traits)
\* ------------------------------------------------------------------------

\* request.originated_from: the client key or a server-side key
RequestOrigins == {"CLIENT", "SERVER"}

\* the rule with the origin of the request left out
trait_persistence_allowed_for_clients_only(e, originated_from) ==
    environments[e].allow_client_traits

\* Environment.trait_persistence_allowed(request)
trait_persistence_allowed(e, originated_from) ==
    environments[e].allow_client_traits \/ originated_from = "SERVER"

\* Identity.generate_traits: the list of Trait objects, one for each item whose
\* trait_value is not None, in the order of the items
RECURSIVE generate_traits(_, _)
generate_traits(items, k) ==
    IF k > Len(items) THEN <<>>
    ELSE IF items[k].trait_value = NullValue
         THEN generate_traits(items, k + 1)
         ELSE <<[trait_key |-> items[k].trait_key,
                 data |-> generate_trait_value_data(items[k].trait_value)]>>
                \o generate_traits(items, k + 1)

\* generate_traits that creates the rows whatever persist says
traits_after_generate_always(stored, items, persist) ==
    bulk_create(stored, generate_traits(items, 1), 1)

\* the Trait table after generate_traits(items, persist): bulk_create of the
\* list when persist is true (the view passes true for an identity it has just
\* created, which has no trait to conflict with)
traits_after_generate(stored, items, persist) ==
    IF persist THEN bulk_create(stored, generate_traits(items, 1), 1) ELSE stored

\* the Trait objects of a stored trait set, as a list
trait_models_of(d) ==
    LET order == CHOOSE s \in Orders(DOMAIN d) : TRUE
    IN  [k \in DOMAIN order |-> [trait_key |-> order[k], data |-> d[order[k]]]]

\* a list of Trait objects as the traits argument of get_segments: the first
\* trait of a key is the one a condition is evaluated on
traits_argument(trait_models) ==
    TraitList(bulk_create(EmptyDict, trait_models, 1))

\* the items of the identify requests: the key the segments are defined on
IdentifyItems == [trait_key : {"plan"}, trait_value : TraitValues \cup {NullValue}]
IdentifyBatches == UNION {[1..n -> IdentifyItems] : n \in 0..MaxBatch}

\* the feature states of the specification of the identify request
IdentifyRows ==
    {FeatureStateRow(1, 1, None, None, FALSE, 1, 0),
     FeatureStateRow(1, 1, None, 1, TRUE, 1, 0)}

\* the view: the traits are validated (a request with traits needs
\* trait_persistence_allowed), then merged into the stored traits with
\* update_traits when the organisation persists traits and generated in memory
\* otherwise, and the flags are resolved with the resulting traits
identify(i, items, originated_from, order) ==
    LET e == IdentityEnvironment[i]
        persist == organisation.persist_trait_data
        trait_models ==
            IF persist
            THEN trait_models_of(traits_after_update(identity_traits[i], items))
            ELSE generate_traits(items, 1)
        flags == feature_states_result(i, traits_argument(trait_models), order)
        request == [called |-> TRUE, request |-> "identify", identity |-> i,
                    items |-> items, originated_from |-> originated_from,
                    before |-> identity_traits[i]]
    IN  IF items # <<>> /\ ~trait_persistence_allowed(e, originated_from)
        THEN /\ response' = [status |-> 400] @@ request
             /\ result' = NoCall
             /\ UNCHANGED <<environment_cache, other_apps>>
             /\ UNCHANGED <<database, environment_segments_cache, now, trait_result,
                            requests>>
        ELSE /\ identity_traits' = [identity_traits EXCEPT ![i] =
                    IF persist THEN traits_after_update(@, items)
                    ELSE traits_after_generate(@, items, persist)]
             /\ result' = flags
             /\ environment_segments_cache' =
                    cache_after_get_segments(environment_segments_cache, e)
             /\ response' =
                    [status |-> 200, trait_models |-> trait_models,
                     flags |-> flags.flags] @@ request
             /\ UNCHANGED <<environment_cache, other_apps>>
             /\ UNCHANGED <<feature_states, feature_segments, segments, environments,
                            project, organisation, now, trait_result, requests>>

InitIdentify ==
    /\ feature_states = {}
    /\ feature_segments = InitialFeatureSegments
    /\ segments = InitialSegments
    /\ \E d \in {EmptyDict, InitialTraits[1]} :
         identity_traits = [InitialTraits EXCEPT ![1] = d]
    /\ \E allow \in BOOLEAN :
         environments = [e \in Environments |-> EnvironmentRow("None", allow)]
    /\ project = ProjectRow(FALSE, FALSE)
    /\ \E persist \in BOOLEAN : organisation = [persist_trait_data |-> persist]
    /\ environment_segments_cache = EmptyDict
    /\ now = 0
    /\ result = NoCall
    /\ trait_result = NoCall
    /\ requests = NoRequests
    /\ response = NoCall
    /\ InitOtherApps

NextIdentify ==
    \/ \E row \in IdentifyRows : CreateFeatureState(row)
    \/ \E i \in PostingIdentities, items \in IdentifyBatches,
          originated_from \in RequestOrigins :
         \E order \in Orders(returnable_rows(i, now)) :
            identify(i, items, originated_from, order)

SpecIdentify == InitIdentify /\ [][NextIdentify]_vars

\* ------------------------------------------------------------------------
\* Environment: the create hook and clone
\* ------------------------------------------------------------------------

\* the ids the new environments get
NewEnvironments == {3, 4}

\* Feature.default_enabled of the features of the project
FeatureDefaultEnabled == [f \in Features |-> f = 1]

\* the hook with prevent_flag_defaults left out
created_feature_states_with_defaults(e) ==
    {FeatureStateRow(f, e, None, None, FeatureDefaultEnabled[f], 1, now) : f \in Features}

\* create_feature_states: one FeatureState.objects.create for each feature of
\* the project
created_feature_states(e) ==
    {FeatureStateRow(f, e, None, None,
                     IF project.prevent_flag_defaults THEN FALSE
                     ELSE FeatureDefaultEnabled[f],
                     1, now) : f \in Features}

\* Environment.objects.create(...) with the AFTER_CREATE hook
CreateEnvironment(e) ==
    /\ e \notin DOMAIN environments
    /\ environments' = Put(environments, e, EnvironmentRow("None", TRUE))
    /\ feature_states' = feature_states \cup created_feature_states(e)
    /\ response' = [called |-> TRUE, request |-> "create_environment", environment |-> e]
    /\ result' = NoCall
    /\ UNCHANGED <<environment_cache, other_apps>>
    /\ UNCHANGED <<feature_segments, segments, identity_traits, project, organisation,
                   environment_segments_cache, now, trait_result, requests>>

\* the id of the clone of feature segment g: the clones get the next ids, in
\* the order of the ids of their originals
cloned_id(source, g) ==
    LET top == CHOOSE x \in {h.id : h \in feature_segments} :
                    \A h \in feature_segments : h.id <= x
    IN  top + Cardinality({h \in feature_segments :
                                h.environment = source /\ h.id <= g.id})

\* feature_segment.clone(clone) for the feature segments of the source
cloned_feature_segments(source, e) ==
    {FeatureSegmentRow(cloned_id(source, g), g.segment, e, g.feature, g.priority) :
        g \in {h \in feature_segments : h.environment = source}}

\* feature_state.clone(clone, live_from) of one state: the copy is of the
\* clone environment and of the clone of the feature segment
cloned_feature_state(source, e, fs) ==
    FeatureStateRow(fs.feature, e, fs.identity,
                    IF fs.feature_segment = None THEN None
                    ELSE cloned_id(source, feature_segment_of(fs)),
                    fs.enabled, fs.version, fs.live_from)

\* the loop over every feature state of the source, the identity ones too
cloned_feature_states_of_all(source, e) ==
    {cloned_feature_state(source, e, fs) :
        fs \in {x \in feature_states : x.environment = source}}

\* the loop over self.feature_states.filter(identity=None)
cloned_feature_states(source, e) ==
    {cloned_feature_state(source, e, fs) :
        fs \in {x \in feature_states : x.environment = source /\ x.identity = None}}

\* Environment.clone: the copy of the environment is saved, then the feature
\* segments and the feature states without identity are cloned; no create
\* hook runs
clone(source, e) ==
    /\ source \in DOMAIN environments
    /\ e \notin DOMAIN environments
    /\ environments' = Put(environments, e, environments[source])
    /\ feature_segments' = feature_segments \cup cloned_feature_segments(source, e)
    /\ feature_states' = feature_states \cup cloned_feature_states(source, e)
    /\ response' = [called |-> TRUE, request |-> "clone", source |-> source,
                    environment |-> e, feature_states |-> feature_states,
                    feature_segments |-> feature_segments,
                    identity_traits |-> identity_traits]
    /\ result' = NoCall
    /\ UNCHANGED <<environment_cache, other_apps>>
    /\ UNCHANGED <<segments, identity_traits, project, organisation,
                   environment_segments_cache, now, trait_result, requests>>

\* the feature states of the two environments: defaults, segment-overrides and
\* identity-overrides, live, draft and scheduled
EnvironmentRows ==
    {FeatureStateRow(1, 1, None, None, TRUE, 1, 0),
     FeatureStateRow(2, 1, None, None, FALSE, 1, 0),
     FeatureStateRow(1, 1, None, 1, TRUE, 1, 0),
     FeatureStateRow(1, 1, None, 2, FALSE, 1, 1),
     FeatureStateRow(1, 1, 1, None, TRUE, 1, 0),
     FeatureStateRow(2, 1, 2, None, TRUE, None, 0),
     FeatureStateRow(1, 2, None, None, TRUE, 1, 0),
     FeatureStateRow(1, 2, None, 3, TRUE, 1, 0)}

InitEnvironments ==
    /\ feature_states = {}
    /\ feature_segments = InitialFeatureSegments
    /\ segments = InitialSegments
    /\ identity_traits = InitialTraits
    /\ environments = [e \in Environments |-> EnvironmentRow("None", TRUE)]
    /\ \E prevent \in BOOLEAN : project = ProjectRow(FALSE, prevent)
    /\ organisation = [persist_trait_data |-> TRUE]
    /\ environment_segments_cache = EmptyDict
    /\ now = 0
    /\ result = NoCall
    /\ trait_result = NoCall
    /\ requests = NoRequests
    /\ response = NoCall
    /\ InitOtherApps

NextEnvironments ==
    \/ \E row \in EnvironmentRows : CreateFeatureState(row)
    \/ \E e \in NewEnvironments : CreateEnvironment(e)
    \/ \E source \in Environments \cup NewEnvironments, e \in NewEnvironments :
         clone(source, e)
    \/ Tick

SpecEnvironments == InitEnvironments /\ [][NextEnvironments]_vars

\* ------------------------------------------------------------------------
\* Specification of the segment rules: segment 1 is a percentage split or a
\* tree of rules, and the calls come with every set of traits
\* ------------------------------------------------------------------------

\* the value of a split condition: nothing, everything, and for each identity
\* its own percentage and the next number, as the tests compute the value from
\* get_hashed_percentage_for_object_ids([segment.id, identity.id])
SplitValues ==
    {0, 100} \cup {get_hashed_percentage_for_object_ids(<<1, i>>) + d :
                        i \in Identities, d \in {0, 1}}

SplitSegments ==
    {<<SegmentRule("ALL", <<Condition("PERCENTAGE_SPLIT", "", p)>>, <<>>)>> :
        p \in SplitValues}

RuleTypes == {"ALL", "ANY", "NONE"}
PlanIsPro == Condition("EQUAL", "plan", "pro")
AIsPro == Condition("EQUAL", "a", "pro")

\* rules with two conditions, with a condition and a child rule, with a child
\* rule only, with nothing, and two top-level rules
RuleSegments ==
    {<<SegmentRule(t, <<PlanIsPro, AIsPro>>, <<>>)>> : t \in RuleTypes}
        \cup {<<SegmentRule(t, <<PlanIsPro>>, <<SegmentRule(u, <<AIsPro>>, <<>>)>>)>> :
                t \in RuleTypes, u \in RuleTypes}
        \cup {<<SegmentRule(t, <<>>, <<SegmentRule(u, <<PlanIsPro, AIsPro>>, <<>>)>>)>> :
                t \in RuleTypes, u \in RuleTypes}
        \cup {<<SegmentRule(t, <<>>, <<>>)>> : t \in RuleTypes}
        \cup {<<SegmentRule(t, <<PlanIsPro>>, <<>>), SegmentRule(u, <<AIsPro>>, <<>>)>> :
                t \in RuleTypes, u \in RuleTypes}

\* every set of traits over the keys and values of the model
AllTraitSets ==
    UNION {[keys -> {generate_trait_value_data(v) : v \in TraitValues}] :
                keys \in SUBSET TraitKeys}
AllTraitArguments == {NoTraits} \cup {TraitList(d) : d \in AllTraitSets}

InitSegments ==
    /\ feature_states = {}
    /\ feature_segments = InitialFeatureSegments
    /\ \E rules \in SplitSegments \cup RuleSegments :
         segments = [InitialSegments EXCEPT ![1] = rules]
    /\ identity_traits = InitialTraits
    /\ environments = [e \in Environments |-> EnvironmentRow("None", TRUE)]
    /\ project = ProjectRow(FALSE, FALSE)
    /\ organisation = [persist_trait_data |-> TRUE]
    /\ environment_segments_cache = EmptyDict
    /\ now = 0
    /\ result = NoCall
    /\ trait_result = NoCall
    /\ requests = NoRequests
    /\ response = NoCall
    /\ InitOtherApps

NextSegments ==
    \/ \E row \in IdentifyRows : CreateFeatureState(row)
    \/ \E i \in Identities, traits \in AllTraitArguments :
         \E order \in Orders(returnable_rows(i, now)) :
            get_all_feature_states(i, traits, order)

SpecSegments == InitSegments /\ [][NextSegments]_vars

\* ------------------------------------------------------------------------
\* The multivariate value of a feature state for an identity
\* ------------------------------------------------------------------------

\* most multivariate options of one feature state
MaxOptions == 2

\* Environment.api_key and Identity.identifier: strings, here the numbers
\* that stand for them in a hash key
ApiKey == [e \in Environments |-> 100 + e]
Identifier == [i \in Identities |-> 200 + i]

\* Identity.composite_key: f"{api_key}_{identifier}"
composite_key(i) == <<ApiKey[IdentityEnvironment[i]], Identifier[i]>>

\* the hash key that is the id whatever the evaluation mode
get_hash_key_of_the_id(i, use_mv_v2_evaluation) == <<i>>

\* Identity.get_hash_key
get_hash_key(i, use_mv_v2_evaluation) ==
    IF use_mv_v2_evaluation THEN composite_key(i) ELSE <<i>>

\* percentage_allocation of an option: nothing, everything, 30 and 70, and
\* the bucket of identity 1 for feature 1 and the next number
Allocations ==
    {0, 30, 70, 100} \cup {get_hashed_percentage_for_object_ids(<<1, 1>>) + d : d \in {0, 1}}

\* the value of option o
OptionValues == [o \in 1..MaxOptions |-> 10 + o]

\* the MultivariateFeatureStateValues of a feature state: at most MaxOptions
\* options with distinct option ids, their allocations summing to 100 at most
MultivariateOptions ==
    {[id |-> o, percentage_allocation |-> a, value |-> OptionValues[o]] :
        o \in 1..MaxOptions, a \in Allocations}

RECURSIVE total_allocation(_)
total_allocation(options) ==
    IF options = {} THEN 0
    ELSE LET o == CHOOSE x \in options : TRUE
         IN  o.percentage_allocation + total_allocation(options \ {o})

OptionSets ==
    {options \in SUBSET MultivariateOptions :
        /\ \A x \in options, y \in options : x.id = y.id => x = y
        /\ total_allocation(options) <= 100}

\* the base value of a feature state
BaseValue == 0

\* the walk over the options in ascending option id, from start
RECURSIVE select_option(_, _, _, _)
select_option(options, bucket, start, base) ==
    IF options = {} THEN base
    ELSE LET option == CHOOSE x \in options : \A y \in options : x.id <= y.id
             limit == start + option.percentage_allocation
         IN  IF start <= bucket /\ bucket < limit
             THEN option.value
             ELSE select_option(options \ {option}, bucket, limit, base)

\* the value of the state of feature f for identity i
multivariate_value(i, f, use_mv_v2_evaluation, options) ==
    select_option(options,
                  get_hashed_percentage_for_object_ids(
                      get_hash_key(i, use_mv_v2_evaluation) \o <<f>>),
                  0, BaseValue)

get_multivariate_feature_state_value(i, f, use_mv_v2_evaluation, options) ==
    /\ response' = [called |-> TRUE, request |-> "multivariate", identity |-> i,
                    feature |-> f, use_mv_v2_evaluation |-> use_mv_v2_evaluation,
                    options |-> options,
                    value |-> multivariate_value(i, f, use_mv_v2_evaluation, options)]
    /\ UNCHANGED <<environment_cache, other_apps>>
    /\ UNCHANGED <<database, environment_segments_cache, now, result, trait_result,
                   requests>>

NextMultivariate ==
    \E i \in Identities, f \in Features, use_mv_v2_evaluation \in BOOLEAN,
       options \in OptionSets :
        get_multivariate_feature_state_value(i, f, use_mv_v2_evaluation, options)

SpecMultivariate == Init /\ [][NextMultivariate]_vars

\* ------------------------------------------------------------------------
\* Identity.get_segments called on its own, with and without overrides_only
\* ------------------------------------------------------------------------

\* Project.get_segments_from_cache (projects/models.py): the segments of the
\* project
project_get_segments_from_cache ==
    [s \in 1..Cardinality(SegmentIds) |-> [id |-> s, rules |-> segments[s]]]

\* all_segments of get_segments
all_segments_of(cache, i, overrides_only) ==
    IF overrides_only
    THEN get_segments_from_cache(cache, IdentityEnvironment[i])
    ELSE project_get_segments_from_cache

\* the list get_segments returns
matching_segments(cache, i, traits, overrides_only) ==
    SelectSeq(all_segments_of(cache, i, overrides_only),
              LAMBDA segment : does_identity_match(segment, i, traits_for_call(i, traits)))

Identity_get_segments(i, traits, overrides_only) ==
    /\ response' = [called |-> TRUE, request |-> "get_segments", identity |-> i,
                    traits |-> traits, overrides_only |-> overrides_only,
                    segments |-> matching_segments(environment_segments_cache, i,
                                                   traits, overrides_only)]
    /\ environment_segments_cache' =
            IF overrides_only
            THEN cache_after_get_segments(environment_segments_cache,
                                          IdentityEnvironment[i])
            ELSE environment_segments_cache
    /\ UNCHANGED <<environment_cache, other_apps>>
    /\ UNCHANGED <<database, now, result, trait_result, requests>>

\* the segment overrides of environment 1, live or scheduled, and one of
\* environment 2
GetSegmentsRows ==
    SegmentOverrideRows \cup {FeatureStateRow(1, 1, None, 1, TRUE, 1, 1),
                              FeatureStateRow(1, 2, None, 3, TRUE, 1, 0)}

NextGetSegments ==
    \/ \E row \in GetSegmentsRows : CreateFeatureState(row)
    \/ \E i \in Identities, traits \in TraitArguments, overrides_only \in BOOLEAN :
            Identity_get_segments(i, traits, overrides_only)
    \/ \E e \in Environments : ExpireSegmentsCache(e)

SpecGetSegments == Init /\ [][NextGetSegments]_vars

\* ------------------------------------------------------------------------
\* Environment.get_from_cache and the update of an environment, statement by
\* statement: request 1 reads an environment through the cache while request
\* 2 saves it; the override-segments cache is filled and read beside them
\* ------------------------------------------------------------------------

\* EnvironmentAPIKey.key of the server-side key of an environment (api_keys)
ServerSideKey == [e \in Environments |-> 300 + e]

\* the environment the api keys of the requests belong to
CachedEnvironment == 1
CacheKeys == {ApiKey[CachedEnvironment], ServerSideKey[CachedEnvironment]}

\* the timeout argument of environment_cache.set, and of
\* environment_segments_cache.set, which passes none
environment_cache_timeout == "ENVIRONMENT_CACHE_SECONDS"
environment_segments_cache_timeout == "DEFAULT_TIMEOUT"

\* the None that get_from_cache returns for an unknown key
NoEnvironment == [id |-> None]

\* cls.objects.filter(Q(api_key=api_key) | Q(api_keys__key=api_key)).get():
\* the environment as the query reads it, NoEnvironment for DoesNotExist
environment_of_key(api_key) ==
    IF \E e \in DOMAIN environments : ApiKey[e] = api_key \/ ServerSideKey[e] = api_key
    THEN LET e == CHOOSE x \in DOMAIN environments :
                        ApiKey[x] = api_key \/ ServerSideKey[x] = api_key
         IN  [id |-> e, fields |-> environments[e]]
    ELSE NoEnvironment

\* environment = environment_cache.get(api_key)
get_from_cache_get(r, api_key) ==
    /\ requests[r].pc = "idle"
    /\ requests' =
        [requests EXCEPT ![r] =
            IF api_key \in DOMAIN environment_cache
            THEN [pc |-> "done", call |-> "get_from_cache", api_key |-> api_key,
                  rebuilt |-> FALSE,
                  environment |-> environment_cache[api_key].environment]
            ELSE [pc |-> "query", call |-> "get_from_cache", api_key |-> api_key]]
    /\ UNCHANGED <<database, environment_segments_cache, now, result, trait_result,
                   response, environment_cache, other_apps>>

\* the query of the miss; DoesNotExist is logged and None returned
get_from_cache_query(r) ==
    /\ requests[r].pc = "query"
    /\ requests' =
        [requests EXCEPT ![r] =
            IF environment_of_key(requests[r].api_key) = NoEnvironment
            THEN [pc |-> "done", call |-> "get_from_cache",
                  api_key |-> requests[r].api_key, rebuilt |-> FALSE,
                  environment |-> NoEnvironment]
            ELSE [pc |-> "set", call |-> "get_from_cache",
                  api_key |-> requests[r].api_key,
                  environment |-> environment_of_key(requests[r].api_key)]]
    /\ UNCHANGED <<database, environment_segments_cache, now, result, trait_result,
                   response, environment_cache, other_apps>>

\* environment_cache.set(api_key, environment, timeout=...)
environment_cache_set(cache, api_key, environment) ==
    Put(cache, api_key, [environment |-> environment,
                         timeout |-> environment_cache_timeout])

get_from_cache_set(r) ==
    /\ requests[r].pc = "set"
    /\ environment_cache' =
            environment_cache_set(environment_cache, requests[r].api_key,
                                  requests[r].environment)
    /\ requests' = [requests EXCEPT ![r] =
                        [pc |-> "done", call |-> "get_from_cache",
                         api_key |-> requests[r].api_key, rebuilt |-> TRUE,
                         environment |-> requests[r].environment]]
    /\ UNCHANGED <<database, environment_segments_cache, now, result, trait_result,
                   response, other_apps>>

\* the field values an update writes: both fields differ between the two
EnvironmentVersions == {EnvironmentRow("None", TRUE), EnvironmentRow("True", FALSE)}

\* environment.save() of an update; the AFTER_UPDATE hook runs after the row
\* is written
Environment_save(r, e, fields) ==
    /\ requests[r].pc = "idle"
    /\ environments' = [environments EXCEPT ![e] = fields]
    /\ requests' = [requests EXCEPT ![r] =
                        [pc |-> "clear_environment_cache", call |-> "save",
                         environment |-> e, initial_api_key |-> ApiKey[e]]]
    /\ UNCHANGED <<feature_states, feature_segments, segments, identity_traits,
                   project, organisation, environment_segments_cache, now, result,
                   trait_result, response, environment_cache, other_apps>>

\* environment_cache.delete(self.initial_value("api_key"))
clear_environment_cache(r) ==
    /\ requests[r].pc = "clear_environment_cache"
    /\ environment_cache' = Del(environment_cache, {requests[r].initial_api_key})
    /\ requests' = [requests EXCEPT ![r] =
                        [pc |-> "done", call |-> "save",
                         environment |-> requests[r].environment]]
    /\ UNCHANGED <<database, environment_segments_cache, now, result, trait_result,
                   response, other_apps>>

\* the request is answered and the worker takes the next one
request_finished(r) ==
    /\ requests[r].pc = "done"
    /\ requests' = [requests EXCEPT ![r] = Idle]
    /\ UNCHANGED <<database, environment_segments_cache, now, result, trait_result,
                   response, environment_cache, other_apps>>

\* an entry of environment_cache times out
ExpireEnvironmentCache(api_key) ==
    /\ api_key \in DOMAIN environment_cache
    /\ environment_cache[api_key].timeout = environment_cache_timeout
    /\ environment_cache' = Del(environment_cache, {api_key})
    /\ UNCHANGED <<database, environment_segments_cache, now, result, trait_result,
                   requests, response, other_apps>>

\* the request that reads and the request that updates
ReadingRequest == 1
UpdatingRequest == 2

NextCache ==
    \/ \E api_key \in CacheKeys : get_from_cache_get(ReadingRequest, api_key)
    \/ get_from_cache_query(ReadingRequest)
    \/ get_from_cache_set(ReadingRequest)
    \/ \E fields \in EnvironmentVersions :
            Environment_save(UpdatingRequest, CachedEnvironment, fields)
    \/ clear_environment_cache(UpdatingRequest)
    \/ \E r \in Requests : request_finished(r)
    \/ \E api_key \in CacheKeys : ExpireEnvironmentCache(api_key)
    \/ \E row \in SegmentOverrideRows : CreateFeatureState(row)
    \/ Identity_get_segments(1, NoTraits, TRUE)
    \/ \E e \in Environments : ExpireSegmentsCache(e)

SpecCache == Init /\ [][NextCache]_vars

\* ------------------------------------------------------------------------
\* Specification of the resolver over rows that break the invariant of the
\* FeatureState table: an identity and a feature segment set on one row
\* ------------------------------------------------------------------------

\* a disabled default, an override for segment 1, and the rows with both an
\* identity and a feature segment, all enabled, live and of environment 1
BothSetRows ==
    {FeatureStateRow(1, 1, None, None, FALSE, 1, 0),
     FeatureStateRow(1, 1, None, 1, TRUE, 1, 0)}
        \cup {FeatureStateRow(1, 1, i, g, TRUE, 1, 0) : i \in Identities, g \in {1, 2}}

NextBothSet ==
    \/ \E row \in BothSetRows : CreateFeatureState(row)
    \/ \E i \in Identities, traits \in TraitArguments :
         \E order \in Orders(returnable_rows(i, now)) :
            get_all_feature_states(i, traits, order)

SpecBothSet == Init /\ [][NextBothSet]_vars

\* ------------------------------------------------------------------------
\* Users, organisations and permission groups (users/models.py)
\* ------------------------------------------------------------------------

\* most ids in one add_users_by_id call
MaxUserIds == 2

Users == {1, 2, 3}
Organisations == {1, 2}
OrganisationRoles == {"ADMIN", "USER"}

\* the one permission group and UserPermissionGroup.organisation
PermissionGroups == {1}
GroupOrganisation == [g \in PermissionGroups |-> 1]

\* a row of UserOrganisation (organisations/models.py)
UserOrganisationRow(u, o, role) == [user |-> u, organisation |-> o, role |-> role]

\* Python values of different types: an int, a str, None and a model instance
\* are never equal to one another
PyInt(n) == <<"int", n>>
PyStr(s) == <<"str", s>>
PyNone == <<"None">>
PyUser(u) == <<"FFAdminUser", "pk", u>>
PyUserOrganisation(row) == <<"UserOrganisation", row.user, row.organisation, row.role>>

\* FFAdminUser.add_organisation: the membership row; no group of the model is
\* a default group
add_organisation(u, o, role) ==
    /\ ~\E row \in user_organisations : row.user = u /\ row.organisation = o
    /\ user_organisations' = user_organisations \cup {UserOrganisationRow(u, o, role)}
    /\ response' = NoCall
    /\ UNCHANGED <<database, environment_segments_cache, now, result, trait_result,
                   requests, environment_cache, permission_group_users, tasks,
                   recurring_tasks, project_metadata, project_metadata_table>>

\* FFAdminUser.remove_organisation: the membership row and the memberships of
\* the groups of the organisation
remove_organisation(u, o) ==
    /\ \E row \in user_organisations : row.user = u /\ row.organisation = o
    /\ user_organisations' =
            {row \in user_organisations : ~(row.user = u /\ row.organisation = o)}
    /\ permission_group_users' =
            [g \in PermissionGroups |->
                IF GroupOrganisation[g] = o
                THEN SelectSeq(permission_group_users[g], LAMBDA x : x # u)
                ELSE permission_group_users[g]]
    /\ response' = NoCall
    /\ UNCHANGED <<database, environment_segments_cache, now, result, trait_result,
                   requests, environment_cache, tasks, recurring_tasks,
                   project_metadata, project_metadata_table>>

\* FFAdminUser.objects.filter(id__in=user_ids, organisations=self.organisation)
users_to_add(g, user_ids) ==
    {u \in Users :
        /\ u \in Range(user_ids)
        /\ \E row \in user_organisations :
                row.user = u /\ row.organisation = GroupOrganisation[g]}

\* set(users_to_add).difference({u.id for u in users_to_add})
missing_ids(g, user_ids) ==
    {PyUser(u) : u \in users_to_add(g, user_ids)}
        \ {PyInt(u) : u \in users_to_add(g, user_ids)}

\* ", ".join(missing_ids) raises TypeError for an item that is no str
join_raises(items) == \E x \in items : x[1] # "str"

\* what add_users_by_id raises
add_users_by_id_raises(g, user_ids) ==
    IF Len(user_ids) # Cardinality(users_to_add(g, user_ids))
    THEN IF join_raises(missing_ids(g, user_ids))
         THEN "TypeError"
         ELSE "FFAdminUser.DoesNotExist"
    ELSE "None"

\* self.users.add(*users): the users not yet in the group get a membership
RECURSIVE users_add(_, _)
users_add(members, users) ==
    IF users = {} THEN members
    ELSE LET u == CHOOSE x \in users : \A y \in users : x <= y
         IN  users_add(IF u \in Range(members) THEN members ELSE Append(members, u),
                       users \ {u})

add_users_by_id(g, user_ids) ==
    /\ permission_group_users' =
            IF add_users_by_id_raises(g, user_ids) = "None"
            THEN [permission_group_users EXCEPT
                    ![g] = users_add(@, users_to_add(g, user_ids))]
            ELSE permission_group_users
    /\ response' = [called |-> TRUE, request |-> "add_users_by_id", group |-> g,
                    user_ids |-> user_ids,
                    users_before |-> permission_group_users[g],
                    raised |-> add_users_by_id_raises(g, user_ids)]
    /\ UNCHANGED <<database, environment_segments_cache, now, result, trait_result,
                   requests, environment_cache, user_organisations, tasks,
                   recurring_tasks, project_metadata, project_metadata_table>>

\* FFAdminUser.get_user_organisation and get_user_organisation_by_id: the
\* UserOrganisation of the user, None when there is none
get_user_organisation(u, o) ==
    IF \E row \in user_organisations : row.user = u /\ row.organisation = o
    THEN PyUserOrganisation(CHOOSE row \in user_organisations :
                                row.user = u /\ row.organisation = o)
    ELSE PyNone

get_user_organisation_by_id(u, organisation_id) == get_user_organisation(u, organisation_id)

\* FFAdminUser.get_organisation_role: user_organisation.role
get_organisation_role(u, o) ==
    IF get_user_organisation(u, o) = PyNone
    THEN PyNone
    ELSE PyStr(get_user_organisation(u, o)[4])

\* role of is_organisation_admin
role_of_call(u, organisation_arg, organisation_id) ==
    IF organisation_arg # None
    THEN get_organisation_role(u, organisation_arg)
    ELSE get_user_organisation_by_id(u, organisation_id)

\* return role and role == OrganisationRole.ADMIN.name
role_and_is_admin(role) ==
    IF role = PyNone THEN "None"
    ELSE IF role = PyStr("ADMIN") THEN "True" ELSE "False"

is_organisation_admin(u, organisation_arg, organisation_id) ==
    /\ response' =
        IF (organisation_arg = None /\ organisation_id = None)
                \/ (organisation_arg # None /\ organisation_id # None)
        THEN [called |-> TRUE, request |-> "is_organisation_admin", user |-> u,
              organisation |-> organisation_arg, organisation_id |-> organisation_id,
              raised |-> "ValueError", value |-> "None"]
        ELSE [called |-> TRUE, request |-> "is_organisation_admin", user |-> u,
              organisation |-> organisation_arg, organisation_id |-> organisation_id,
              raised |-> "None",
              value |-> role_and_is_admin(
                            role_of_call(u, organisation_arg, organisation_id))]
    /\ UNCHANGED <<database, environment_segments_cache, now, result, trait_result,
                   requests, environment_cache, other_apps>>

\* user 1 administers organisation 1, user 2 is a user of it, user 3 is of
\* organisation 2; the group of organisation 1 is empty
InitUsers ==
    /\ InitEngine
    /\ environment_cache = EmptyDict
    /\ user_organisations = {UserOrganisationRow(1, 1, "ADMIN"),
                             UserOrganisationRow(2, 1, "USER"),
                             UserOrganisationRow(3, 2, "USER")}
    /\ permission_group_users = [g \in PermissionGroups |-> <<>>]
    /\ tasks = EmptyDict
    /\ recurring_tasks = EmptyDict
    /\ project_metadata = EmptyDict
    /\ project_metadata_table = EmptyDict

\* the id lists of add_users_by_id, a repeated id included
UserIdLists == UNION {[1..n -> Users] : n \in 0..MaxUserIds}

\* the organisation arguments of is_organisation_admin
OrganisationArguments == {None} \cup Organisations

NextUsers ==
    \/ \E u \in Users, role \in OrganisationRoles : add_organisation(u, 1, role)
    \/ \E u \in Users : remove_organisation(u, 1)
    \/ \E g \in PermissionGroups, user_ids \in UserIdLists : add_users_by_id(g, user_ids)
    \/ \E u \in Users, organisation_arg \in OrganisationArguments,
          organisation_id \in OrganisationArguments :
            is_organisation_admin(u, organisation_arg, organisation_id)

SpecUsers == InitUsers /\ [][NextUsers]_vars

\* ------------------------------------------------------------------------
\* The task processor (task_processor/processor.py)
\* ------------------------------------------------------------------------

\* the largest num_tasks a call is made with
MaxNumTasks == 2
\* most RecurringTaskRun rows of one recurring task
MaxTaskRuns == 2

TaskIds == {1, 2, 3}
RecurringTaskIds == {1, 2}

\* a task is given up after this many failures (task_processor/managers.py)
MaxFailures == 3

\* rows of Task and of RecurringTask (task_processor/models.py); task_runs is
\* the number of TaskRun rows of the task
TaskRow(completed, num_failures, is_locked, task_runs) ==
    [completed |-> completed, num_failures |-> num_failures, is_locked |-> is_locked,
     task_runs |-> task_runs]
RecurringTaskRow(is_locked, task_runs) == [is_locked |-> is_locked, task_runs |-> task_runs]

\* a task in memory: its id and the fields of its row
TaskObject(table, id) == [id |-> id, fields |-> table[id]]

\* the ids of a set in ascending order
RECURSIVE sorted_ids(_)
sorted_ids(ids) ==
    IF ids = {} THEN <<>>
    ELSE LET id == CHOOSE x \in ids : \A y \in ids : x <= y
         IN  <<id>> \o sorted_ids(ids \ {id})

\* the first n items of a list, all of them when there are fewer
first_n(items, n) == SubSeq(items, 1, IF n < Len(items) THEN n ELSE Len(items))

\* Task.objects.get_tasks_to_process(num_tasks): the first num_tasks tasks
\* that are neither completed nor locked nor given up
tasks_to_process(num_tasks) ==
    first_n(sorted_ids({id \in DOMAIN tasks :
                            /\ ~tasks[id].completed
                            /\ ~tasks[id].is_locked
                            /\ tasks[id].num_failures < MaxFailures}),
            num_tasks)

\* RecurringTask.objects.get_tasks_to_process(num_tasks)
recurring_tasks_to_process(num_tasks) ==
    first_n(sorted_ids({id \in DOMAIN recurring_tasks : ~recurring_tasks[id].is_locked}),
            num_tasks)

\* the rows of the fetched tasks are locked by the query that fetches them
lock_for_processing(table, ids) ==
    [id \in DOMAIN table |->
        IF id \in Range(ids) THEN [table[id] EXCEPT !.is_locked = TRUE] ELSE table[id]]

\* AbstractBaseTask.unlock, Task.mark_success, Task.mark_failure
unlock(task) == [task EXCEPT !.fields.is_locked = FALSE]
mark_success(task) ==
    IF "completed" \in DOMAIN task.fields
    THEN [unlock(task) EXCEPT !.fields.completed = TRUE]
    ELSE unlock(task)
mark_failure(task) ==
    IF "num_failures" \in DOMAIN task.fields
    THEN [unlock(task) EXCEPT !.fields.num_failures = @ + 1]
    ELSE unlock(task)

\* _run_task: task.run() raises or returns
run_task(task, raises) ==
    IF raises
    THEN [task |-> mark_failure(task),
          task_run |-> [task |-> task.id, result |-> "FAILURE", error_details |-> TRUE,
                        finished |-> FALSE]]
    ELSE [task |-> mark_success(task),
          task_run |-> [task |-> task.id, result |-> "SUCCESS", error_details |-> FALSE,
                        finished |-> TRUE]]

NoneExecuted == [executed_tasks |-> <<>>, task_runs |-> <<>>]

\* the loop that lets the exception of a task end it
RECURSIVE run_tasks_loop_until_failure(_, _, _, _)
run_tasks_loop_until_failure(fetched, k, failing, acc) ==
    IF k > Len(fetched) THEN acc
    ELSE LET ran == run_task(fetched[k], fetched[k].id \in failing)
             next == [executed_tasks |-> Append(acc.executed_tasks, ran.task),
                      task_runs |-> Append(acc.task_runs, ran.task_run)]
         IN  IF fetched[k].id \in failing THEN next
             ELSE run_tasks_loop_until_failure(fetched, k + 1, failing, next)

\* for task in tasks: task, task_run = _run_task(task); append both
RECURSIVE run_tasks_loop(_, _, _, _)
run_tasks_loop(fetched, k, failing, acc) ==
    IF k > Len(fetched) THEN acc
    ELSE LET ran == run_task(fetched[k], fetched[k].id \in failing)
         IN  run_tasks_loop(fetched, k + 1, failing,
                            [executed_tasks |-> Append(acc.executed_tasks, ran.task),
                             task_runs |-> Append(acc.task_runs, ran.task_run)])

\* objects.bulk_update(executed_tasks, fields): the named fields of the rows
\* of the executed tasks are written
bulk_update_tasks(table, executed_tasks, fields) ==
    [id \in DOMAIN table |->
        IF \E k \in DOMAIN executed_tasks : executed_tasks[k].id = id
        THEN LET task == executed_tasks[CHOOSE k \in DOMAIN executed_tasks :
                                            executed_tasks[k].id = id]
             IN  [f \in DOMAIN table[id] |->
                    IF f \in fields THEN task.fields[f] ELSE table[id][f]]
        ELSE table[id]]

\* TaskRun.objects.bulk_create(task_runs)
bulk_create_task_runs(table, task_runs) ==
    [id \in DOMAIN table |->
        [table[id] EXCEPT !.task_runs =
            @ + Cardinality({k \in DOMAIN task_runs : task_runs[k].task = id})]]

\* the ids of a list of tasks
ids_of(task_list) == [k \in DOMAIN task_list |-> task_list[k].id]

run_tasks(num_tasks, failing) ==
    IF num_tasks < 1
    THEN /\ response' = [called |-> TRUE, request |-> "run_tasks",
                         num_tasks |-> num_tasks, raised |-> "ValueError",
                         fetched |-> <<>>, failing |-> {}, written |-> <<>>,
                         task_runs |-> <<>>, before |-> tasks]
         /\ UNCHANGED <<database, environment_segments_cache, now, result,
                        trait_result, requests, environment_cache, other_apps>>
    ELSE LET ids == tasks_to_process(num_tasks)
             locked == lock_for_processing(tasks, ids)
             fetched == [k \in DOMAIN ids |-> TaskObject(locked, ids[k])]
             ran == run_tasks_loop(fetched, 1, failing, NoneExecuted)
         IN  /\ failing \subseteq Range(ids)
             /\ tasks' = bulk_create_task_runs(
                            bulk_update_tasks(locked, ran.executed_tasks,
                                              {"completed", "num_failures", "is_locked"}),
                            ran.task_runs)
             /\ response' = [called |-> TRUE, request |-> "run_tasks",
                             num_tasks |-> num_tasks, raised |-> "None",
                             fetched |-> ids, failing |-> failing,
                             written |-> ids_of(ran.executed_tasks),
                             task_runs |-> ran.task_runs, before |-> tasks]
             /\ UNCHANGED <<database, environment_segments_cache, now, result,
                            trait_result, requests, environment_cache,
                            user_organisations, permission_group_users,
                            recurring_tasks, project_metadata, project_metadata_table>>

\* a new task is queued in the place of one that is completed or given up
Task_create(id) ==
    /\ id \in DOMAIN tasks
    /\ tasks[id].completed \/ tasks[id].num_failures >= MaxFailures
    /\ tasks' = [tasks EXCEPT ![id] = TaskRow(FALSE, 0, FALSE, 0)]
    /\ response' = NoCall
    /\ UNCHANGED <<database, environment_segments_cache, now, result, trait_result,
                   requests, environment_cache, user_organisations,
                   permission_group_users, recurring_tasks, project_metadata,
                   project_metadata_table>>

InitTasks ==
    /\ InitEngine
    /\ environment_cache = EmptyDict
    /\ user_organisations = {}
    /\ permission_group_users = EmptyDict
    /\ tasks = [id \in TaskIds |-> TaskRow(FALSE, 0, FALSE, 0)]
    /\ recurring_tasks = [id \in RecurringTaskIds |-> RecurringTaskRow(FALSE, 0)]
    /\ project_metadata = EmptyDict
    /\ project_metadata_table = EmptyDict

NextTasks ==
    \/ \E num_tasks \in 0..MaxNumTasks, failing \in SUBSET TaskIds :
            run_tasks(num_tasks, failing)
    \/ \E id \in TaskIds : Task_create(id)

SpecTasks == InitTasks /\ [][NextTasks]_vars

\* ------------------------------------------------------------------------
\* run_recurring_tasks
\* ------------------------------------------------------------------------

\* the loop of run_recurring_tasks: a task that is not registered is deleted,
\* a task that should execute is run, any other task is passed over
RECURSIVE run_recurring_tasks_loop(_, _, _, _, _, _)
run_recurring_tasks_loop(fetched, k, registered, due, failing, acc) ==
    IF k > Len(fetched) THEN acc
    ELSE LET task == fetched[k]
         IN  IF task.id \notin registered
             THEN run_recurring_tasks_loop(fetched, k + 1, registered, due, failing,
                        [acc EXCEPT !.deleted = @ \cup {task.id}])
             ELSE IF task.id \in due
             THEN LET ran == run_task(task, task.id \in failing)
                  IN  run_recurring_tasks_loop(fetched, k + 1, registered, due, failing,
                        [acc EXCEPT !.executed_tasks = Append(@, ran.task),
                                    !.task_runs = Append(@, ran.task_run)])
             ELSE run_recurring_tasks_loop(fetched, k + 1, registered, due, failing, acc)

\* task.delete() of the tasks that are not registered
delete_tasks(table, ids) == [id \in DOMAIN table \ ids |-> table[id]]

run_recurring_tasks(num_tasks, registered, due, failing) ==
    IF num_tasks < 1
    THEN /\ response' = [called |-> TRUE, request |-> "run_recurring_tasks",
                         num_tasks |-> num_tasks, raised |-> "ValueError",
                         fetched |-> <<>>, registered |-> {}, due |-> {},
                         failing |-> {}, deleted |-> {}, written |-> <<>>,
                         task_runs |-> <<>>]
         /\ UNCHANGED <<database, environment_segments_cache, now, result,
                        trait_result, requests, environment_cache, other_apps>>
    ELSE LET ids == recurring_tasks_to_process(num_tasks)
             locked == lock_for_processing(recurring_tasks, ids)
             fetched == [k \in DOMAIN ids |-> TaskObject(locked, ids[k])]
             ran == run_recurring_tasks_loop(fetched, 1, registered, due, failing,
                                             [executed_tasks |-> <<>>, task_runs |-> <<>>,
                                              deleted |-> {}])
         IN  /\ registered \subseteq Range(ids)
             /\ due \subseteq registered
             /\ failing \subseteq due
             /\ \A id \in due : recurring_tasks[id].task_runs < MaxTaskRuns
             /\ recurring_tasks' =
                    bulk_create_task_runs(
                        bulk_update_tasks(delete_tasks(locked, ran.deleted),
                                          ran.executed_tasks, {"is_locked"}),
                        ran.task_runs)
             /\ response' = [called |-> TRUE, request |-> "run_recurring_tasks",
                             num_tasks |-> num_tasks, raised |-> "None",
                             fetched |-> ids, registered |-> registered, due |-> due,
                             failing |-> failing, deleted |-> ran.deleted,
                             written |-> ids_of(ran.executed_tasks),
                             task_runs |-> ran.task_runs]
             /\ UNCHANGED <<database, environment_segments_cache, now, result,
                            trait_result, requests, environment_cache,
                            user_organisations, permission_group_users, tasks,
                            project_metadata, project_metadata_table>>

\* a recurring task is registered when the processor starts
RecurringTask_create(id) ==
    /\ id \notin DOMAIN recurring_tasks
    /\ recurring_tasks' = Put(recurring_tasks, id, RecurringTaskRow(FALSE, 0))
    /\ response' = NoCall
    /\ UNCHANGED <<database, environment_segments_cache, now, result, trait_result,
                   requests, environment_cache, user_organisations,
                   permission_group_users, tasks, project_metadata,
                   project_metadata_table>>

NextRecurringTasks ==
    \/ \E num_tasks \in 0..MaxNumTasks :
         \E registered \in SUBSET RecurringTaskIds, due \in SUBSET RecurringTaskIds,
            failing \in SUBSET RecurringTaskIds :
                run_recurring_tasks(num_tasks, registered, due, failing)
    \/ \E id \in RecurringTaskIds : RecurringTask_create(id)

SpecRecurringTasks == InitTasks /\ [][NextRecurringTasks]_vars

\* ------------------------------------------------------------------------
\* DynamoProjectMetadata: the state of the identity migration of a project
\* (environments/dynamodb/types.py)
\* ------------------------------------------------------------------------

MigratedProjects == {1, 2}

\* datetime.now().isoformat(): a string that is never empty
isoformat(t) == IF t = 0 THEN "T00:00:00" ELSE "T00:00:01"

\* the truth value of a field: None and the empty string are false
truthy(x) == x # "None" /\ x # ""

\* cls(id=project_id): the fields default to None
NewProjectMetadata ==
    [migration_start_time |-> "None", migration_end_time |-> "None",
     triggered_at |-> "None"]

MigrationStatuses ==
    <<"MIGRATION_NOT_STARTED", "MIGRATION_SCHEDULED", "MIGRATION_IN_PROGRESS",
      "MIGRATION_COMPLETED">>

\* DynamoProjectMetadata.identity_migration_status
identity_migration_status(metadata) ==
    IF ~truthy(metadata.migration_start_time)
    THEN IF truthy(metadata.triggered_at)
         THEN "MIGRATION_SCHEDULED"
         ELSE "MIGRATION_NOT_STARTED"
    ELSE IF ~truthy(metadata.migration_end_time)
    THEN "MIGRATION_IN_PROGRESS"
    ELSE "MIGRATION_COMPLETED"

\* DynamoProjectMetadata.get_or_new: the saved item, or a new object
get_or_new(p) ==
    /\ project_metadata' =
            Put(project_metadata, p,
                IF p \in DOMAIN project_metadata_table
                THEN project_metadata_table[p]
                ELSE NewProjectMetadata)
    /\ response' = NoCall
    /\ UNCHANGED <<database, environment_segments_cache, now, result, trait_result,
                   requests, environment_cache, user_organisations,
                   permission_group_users, tasks, recurring_tasks,
                   project_metadata_table>>

\* the guard that lets every call through
already_done_never(metadata, field) == FALSE

\* if self.<field>: raise AttributeError
already_done(metadata, field) == truthy(metadata[field])

\* the body shared by trigger_identity_migration, start_identity_migration and
\* finish_identity_migration: the guard, the assignment and _save
set_migration_time(p, request, field) ==
    /\ p \in DOMAIN project_metadata
    /\ IF already_done(project_metadata[p], field)
       THEN /\ response' = [called |-> TRUE, request |-> request, project |-> p,
                            field |-> field, raised |-> "AttributeError",
                            before |-> project_metadata[p],
                            table_before |-> project_metadata_table]
            /\ UNCHANGED <<project_metadata, project_metadata_table>>
       ELSE /\ project_metadata' =
                    [project_metadata EXCEPT ![p][field] = isoformat(now)]
            /\ project_metadata_table' =
                    Put(project_metadata_table, p,
                        [project_metadata[p] EXCEPT ![field] = isoformat(now)])
            /\ response' = [called |-> TRUE, request |-> request, project |-> p,
                            field |-> field, raised |-> "None",
                            before |-> project_metadata[p],
                            table_before |-> project_metadata_table]
    /\ UNCHANGED <<database, environment_segments_cache, now, result, trait_result,
                   requests, environment_cache, user_organisations,
                   permission_group_users, tasks, recurring_tasks>>

trigger_identity_migration(p) ==
    set_migration_time(p, "trigger_identity_migration", "triggered_at")

start_identity_migration(p) ==
    set_migration_time(p, "start_identity_migration", "migration_start_time")

finish_identity_migration(p) ==
    set_migration_time(p, "finish_identity_migration", "migration_end_time")

NextMigration ==
    \/ \E p \in MigratedProjects : get_or_new(p)
    \/ \E p \in MigratedProjects : trigger_identity_migration(p)
    \/ \E p \in MigratedProjects : start_identity_migration(p)
    \/ \E p \in MigratedProjects : finish_identity_migration(p)
    \/ Tick

SpecMigration == Init /\ [][NextMigration]_vars

\* ------------------------------------------------------------------------
\* Vocabulary of the properties
\* ------------------------------------------------------------------------

IsIdentityOverride(fs) == fs.identity # None
IsSegmentOverride(fs) == fs.identity = None /\ fs.feature_segment # None
IsEnvironmentDefault(fs) == fs.identity = None /\ fs.feature_segment = None

\* the states of feature f in the returned list
Returned(f) == {k \in DOMAIN result.flags : result.flags[k].feature = f}
ReturnedStates(f) == {result.flags[k] : k \in Returned(f)}
CandidatesOf(f) == {fs \in result.candidates : fs.feature = f}

CalledEnvironment == IdentityEnvironment[result.identity]
CalledTraits == traits_for_call(result.identity, result.traits)

\* the identity of the call matches segment s of the Segment table
MatchesSegment(s) ==
    does_identity_match([id |-> s, rules |-> segments[s]], result.identity, CalledTraits)

IsLive(fs) == fs.version # None /\ fs.live_from <= now

\* ------------------------------------------------------------------------
\* C1: for every feature, the returned state is an identity-override when the
\* candidates hold one for the identity, else a segment-override when they hold
\* one, else the environment-default; in every iteration order.
\* ------------------------------------------------------------------------
C1_PriorityOrder ==
    result.called =>
        \A f \in Features :
            CandidatesOf(f) # {} =>
                /\ ReturnedStates(f) # {}
                /\ \A fs \in ReturnedStates(f) :
                     IF \E c \in CandidatesOf(f) : c.identity = result.identity
                     THEN fs.identity = result.identity
                     ELSE IF \E c \in CandidatesOf(f) :
                                /\ IsSegmentOverride(c)
                                /\ feature_segment_of(c).segment \in result.segments
                     THEN IsSegmentOverride(fs)
                     ELSE IsEnvironmentDefault(fs)

\* a call whose candidates for one feature are of the three tiers
C1_Witness ==
    /\ result.called
    /\ \E f \in Features :
         /\ \E c \in CandidatesOf(f) : c.identity = result.identity
         /\ \E c \in CandidatesOf(f) : IsSegmentOverride(c)
         /\ \E c \in CandidatesOf(f) : IsEnvironmentDefault(c)
         /\ \E fs \in ReturnedStates(f) : fs.identity = result.identity

\* ------------------------------------------------------------------------
\* C3: with hide-disabled-flags off the returned list holds exactly one state
\* of each feature that has a candidate, and none of the other features.
\* ------------------------------------------------------------------------
C3_OnePerFeature ==
    (result.called /\ result.hide_disabled_flags # "True") =>
        \A f \in Features :
            Cardinality(Returned(f)) = IF CandidatesOf(f) # {} THEN 1 ELSE 0

\* two features returned, one of them out of two candidates
C3_Witness ==
    /\ result.called
    /\ result.hide_disabled_flags # "True"
    /\ Len(result.flags) = 2
    /\ \E f \in Features : Cardinality(CandidatesOf(f)) >= 2

\* the live states of feature f in the environment of the call
LiveStates(f) ==
    {fs \in feature_states :
        IsLive(fs) /\ fs.environment = CalledEnvironment /\ fs.feature = f}

\* the live segment-overrides of feature f in the environment of the call
\* whose feature segment is of that environment and of a segment the identity
\* matches
MatchingOverrides(f) ==
    {fs \in LiveStates(f) :
        /\ IsSegmentOverride(fs)
        /\ feature_segment_of(fs).environment = CalledEnvironment
        /\ MatchesSegment(feature_segment_of(fs).segment)}

\* ------------------------------------------------------------------------
\* C2: when the identity matches several segments that override a feature and
\* has no identity-override for it, the returned state is the override of the
\* feature segment with the lowest priority integer, in every iteration order.
\* ------------------------------------------------------------------------
C2_LowestPriority ==
    result.called =>
        \A f \in Features :
            (/\ Cardinality({feature_segment_of(fs).segment :
                                fs \in MatchingOverrides(f)}) >= 2
             /\ ~\E fs \in LiveStates(f) : fs.identity = result.identity)
            => /\ ReturnedStates(f) # {}
               /\ \A r \in ReturnedStates(f) :
                    /\ r \in MatchingOverrides(f)
                    /\ \A fs \in MatchingOverrides(f) :
                         feature_segment_of(r).priority
                            <= feature_segment_of(fs).priority

\* ------------------------------------------------------------------------
\* C7: for a feature with an environment-default, one segment-override and no
\* identity-override, the segment-override is returned iff the identity matches
\* the segment and the feature segment is of the identity's environment;
\* otherwise the environment-default is returned.
\* ------------------------------------------------------------------------
C7_SegmentIffMatch ==
    result.called =>
        \A f \in Features :
            LET defaults == {fs \in LiveStates(f) : IsEnvironmentDefault(fs)}
                overrides == {fs \in LiveStates(f) : IsSegmentOverride(fs)}
            IN  (/\ Cardinality(defaults) = 1
                 /\ Cardinality(overrides) = 1
                 /\ ~\E fs \in LiveStates(f) : fs.identity = result.identity)
                => ReturnedStates(f) =
                     IF overrides \subseteq MatchingOverrides(f)
                     THEN overrides ELSE defaults

\* ------------------------------------------------------------------------
\* C8: a call returns the same list whatever the segments cache holds: what it
\* returns with the cache as it is equals what it returns with an empty cache,
\* for every identity, traits and iteration order.
\* ------------------------------------------------------------------------
C8_SameResultWhateverTheCache ==
    \A i \in Identities, traits \in TraitArguments :
        \A order \in Orders(returnable_rows(i, now)) :
            returned_flags(environment_segments_cache, i, traits, order)
                = returned_flags(EmptyDict, i, traits, order)

\* ------------------------------------------------------------------------
\* C4: when the effective hide_disabled_flags is true no disabled state is
\* returned, and a feature whose highest-priority candidate is disabled is
\* absent from the list: no lower-priority enabled state stands in for it.
\* ------------------------------------------------------------------------
Tier(fs) == IF IsIdentityOverride(fs) THEN 3 ELSE IF IsSegmentOverride(fs) THEN 2 ELSE 1

Outranks(a, b) ==
    \/ Tier(a) > Tier(b)
    \/ /\ Tier(a) = 2
       /\ Tier(b) = 2
       /\ feature_segment_of(a).priority < feature_segment_of(b).priority

TopCandidates(f) ==
    {c \in CandidatesOf(f) : ~\E d \in CandidatesOf(f) : Outranks(d, c)}

EffectiveHide ==
    \/ environments[CalledEnvironment].hide_disabled_flags = "True"
    \/ /\ environments[CalledEnvironment].hide_disabled_flags = "None"
       /\ project.hide_disabled_flags

C4_HiddenWhenDisabled ==
    (result.called /\ EffectiveHide) =>
        /\ \A k \in DOMAIN result.flags : result.flags[k].enabled
        /\ \A f \in Features :
              (CandidatesOf(f) # {} /\ \A c \in TopCandidates(f) : ~c.enabled)
              => Returned(f) = {}

\* hide is on, the top candidate of a feature is disabled, a lower one is
\* enabled, and the feature is not in the list
C4_Witness ==
    /\ result.called
    /\ EffectiveHide
    /\ \E f \in Features :
         /\ CandidatesOf(f) # {}
         /\ \A c \in TopCandidates(f) : ~c.enabled
         /\ \E c \in CandidatesOf(f) : c.enabled
         /\ Returned(f) = {}

\* ------------------------------------------------------------------------
\* C5: get_hide_disabled_flags is the environment's own value when that is not
\* null, also when it is false and the project's is true, and the project's
\* value only when the environment's is null.
\* ------------------------------------------------------------------------
C5_EnvironmentValueFirst ==
    result.called =>
        LET own == environments[CalledEnvironment].hide_disabled_flags
        IN  /\ own = "True" => result.hide_disabled_flags = "True"
            /\ own = "False" => result.hide_disabled_flags = "False"
            /\ own = "None" =>
                 (result.hide_disabled_flags = "True") = project.hide_disabled_flags

\* the environment says false, the project true, and a disabled state is returned
C5_Witness ==
    /\ result.called
    /\ environments[CalledEnvironment].hide_disabled_flags = "False"
    /\ project.hide_disabled_flags
    /\ result.hide_disabled_flags = "False"
    /\ \E k \in DOMAIN result.flags : ~result.flags[k].enabled

C9_NoSideEffect ==
    [][result'.called => UNCHANGED <<database, environment_segments_cache>>]_vars

\* C9 as amended: a call leaves the tables unchanged; the only shared state it
\* writes is the entry of its environment in environment_segments_cache, which
\* it sets, on a miss (no entry or an empty list), to the segments that have an
\* override in the environment.
C9_OnlyFillsTheSegmentsCache ==
    [][result'.called =>
        /\ UNCHANGED database
        /\ \/ UNCHANGED environment_segments_cache
           \/ LET e == IdentityEnvironment[result'.identity]
              IN  /\ cache_get(environment_segments_cache, e) = <<>>
                  /\ DOMAIN environment_segments_cache' =
                        DOMAIN environment_segments_cache \cup {e}
                  /\ \A k \in DOMAIN environment_segments_cache \ {e} :
                        environment_segments_cache'[k] = environment_segments_cache[k]
                  /\ \A k \in DOMAIN environment_segments_cache'[e] :
                        environment_segments_cache'[e][k].rules
                            = segments[environment_segments_cache'[e][k].id]
                  /\ \A s \in SegmentIds :
                        (\E k \in DOMAIN environment_segments_cache'[e] :
                            environment_segments_cache'[e][k].id = s)
                        <=> (\E g \in feature_segments, fs \in feature_states :
                                /\ g.segment = s
                                /\ fs.feature_segment = g.id
                                /\ fs.environment = e)]_vars

\* a call that missed the cache and wrote a list of segments to it
C9_Witness ==
    /\ result.called
    /\ ~result.cache_hit
    /\ CalledEnvironment \in DOMAIN environment_segments_cache
    /\ environment_segments_cache[CalledEnvironment] # <<>>

\* ------------------------------------------------------------------------
\* C10: an item with a null trait_value removes the stored trait of its key,
\* and changes nothing when the identity has no trait of that key; every
\* other stored trait of the identity is kept.
\* ------------------------------------------------------------------------
ItemsOf(key) ==
    {k \in DOMAIN trait_result.items : trait_result.items[k].trait_key = key}

\* the keys the batch gives a null value
NulledKeys ==
    {key \in TraitKeys :
        \E k \in ItemsOf(key) : trait_result.items[k].trait_value = NullValue}

\* the keys the batch gives a value that is not null
ValuedKeys ==
    {key \in TraitKeys :
        \E k \in ItemsOf(key) : trait_result.items[k].trait_value # NullValue}

StoredNow == identity_traits[trait_result.identity]

C10_NullDeletesOnlyItsKey ==
    trait_result.called =>
        /\ trait_result.returned = StoredNow
        /\ \A key \in NulledKeys :
              \/ key \notin DOMAIN StoredNow
              \/ key \in ValuedKeys \ DOMAIN trait_result.before
        /\ \A key \in (DOMAIN trait_result.before) \ NulledKeys :
              /\ key \in DOMAIN StoredNow
              /\ ItemsOf(key) = {} => StoredNow[key] = trait_result.before[key]
        /\ (ValuedKeys = {} /\ NulledKeys \cap DOMAIN trait_result.before = {})
           => StoredNow = trait_result.before

\* a batch that nulls one of two stored traits: that one is gone, the other kept
C10_Witness ==
    /\ trait_result.called
    /\ \E key \in NulledKeys : key \in DOMAIN trait_result.before
    /\ \E key \in DOMAIN trait_result.before : ItemsOf(key) = {} /\ key \in DOMAIN StoredNow

\* a batch that nulls a key the identity has no trait of
C10_WitnessAbsentKey ==
    /\ trait_result.called
    /\ trait_result.before # EmptyDict
    /\ \E key \in NulledKeys : key \notin DOMAIN trait_result.before
    /\ StoredNow = trait_result.before

\* ------------------------------------------------------------------------
\* C11: within one batch the last item of a key decides the key: after the
\* call the trait of a key with several items has the value of the last item,
\* or is absent when the last item is null.
\* ------------------------------------------------------------------------
LastItemOf(key) == CHOOSE k \in ItemsOf(key) : \A j \in ItemsOf(key) : j <= k

C11_LastItemDecides ==
    trait_result.called =>
        \A key \in TraitKeys :
            Cardinality(ItemsOf(key)) >= 2 =>
                LET last == trait_result.items[LastItemOf(key)].trait_value
                IN  IF last = NullValue
                    THEN key \notin DOMAIN StoredNow
                    ELSE /\ key \in DOMAIN StoredNow
                         /\ trait_value(StoredNow[key]) = last

\* ------------------------------------------------------------------------
\* C12: for a batch with pairwise distinct keys the call returns the traits
\* after the merge: the previous traits without the keys given null, every
\* item with a value added or overriding; a stored trait whose key is not in
\* the batch keeps its value, and a trait whose incoming value equals the
\* stored one is not written.
\* ------------------------------------------------------------------------
DistinctKeys == \A key \in TraitKeys : Cardinality(ItemsOf(key)) <= 1

\* the value the batch gives a key that has one item
IncomingValue(key) == trait_result.items[CHOOSE k \in ItemsOf(key) : TRUE].trait_value

C12_MergeOfDistinctKeys ==
    (trait_result.called /\ DistinctKeys) =>
        /\ trait_result.returned = StoredNow
        /\ DOMAIN StoredNow = ((DOMAIN trait_result.before) \ NulledKeys) \cup ValuedKeys
        /\ \A key \in ValuedKeys : trait_value(StoredNow[key]) = IncomingValue(key)
        /\ \A key \in DOMAIN trait_result.before :
              ItemsOf(key) = {} => StoredNow[key] = trait_result.before[key]
        /\ \A key \in ValuedKeys \cap DOMAIN trait_result.before :
              trait_value(trait_result.before[key]) = IncomingValue(key)
                => key \notin trait_result.written

\* a batch of two keys: one stored with the incoming value and not written,
\* the other new and written
C12_Witness ==
    /\ trait_result.called
    /\ DistinctKeys
    /\ Len(trait_result.items) = 2
    /\ \E key \in ValuedKeys \cap DOMAIN trait_result.before :
         /\ trait_value(trait_result.before[key]) = IncomingValue(key)
         /\ key \notin trait_result.written
    /\ \E key \in ValuedKeys \ DOMAIN trait_result.before :
         /\ key \in trait_result.written
         /\ key \in DOMAIN StoredNow

\* ------------------------------------------------------------------------
\* C13: when two update_traits calls of one identity run at the same time and
\* both create the same new trait_key, neither raises an error and after both
\* the identity has the one trait of that key, with the value of one of them.
\* ------------------------------------------------------------------------
\* request r found no trait of the key when it read and staged one in new_traits
Creates(r, key) ==
    /\ requests[r].pc # "idle"
    /\ \E k \in DOMAIN requests[r].st.new_traits :
         requests[r].st.new_traits[k].trait_key = key

\* the values request r staged for the key
CreatedValues(r, key) ==
    {trait_value(requests[r].st.new_traits[k].data) :
        k \in {j \in DOMAIN requests[r].st.new_traits :
                  requests[r].st.new_traits[j].trait_key = key}}

C13_ConcurrentCreateIsQuiet ==
    /\ \A r \in Requests : requests[r].pc # "idle" => ~requests[r].error
    /\ \A key \in TraitKeys :
         (/\ \A r \in Requests : Creates(r, key) /\ requests[r].pc = "done"
          /\ requests[1].identity = requests[2].identity)
         => /\ key \in DOMAIN identity_traits[requests[1].identity]
            /\ trait_value(identity_traits[requests[1].identity][key])
                 \in CreatedValues(1, key) \cup CreatedValues(2, key)

\* both requests read before either inserted, staged different values of the
\* same new key, and both are done
C13_Witness ==
    \E key \in TraitKeys :
        /\ \A r \in Requests :
              /\ requests[r].pc = "done"
              /\ Creates(r, key)
              /\ key \notin DOMAIN requests[r].before
        /\ CreatedValues(1, key) # CreatedValues(2, key)
        /\ key \in DOMAIN identity_traits[requests[1].identity]

\* ------------------------------------------------------------------------
\* C14: when the organisation's persist_trait_data is false an identify
\* request with traits leaves the stored traits of the identity unchanged, and
\* the response still has the traits computed in memory, one for each item
\* with a value and in the order of the items, and the flags resolved with them.
\* ------------------------------------------------------------------------
Identified == response.called /\ response.request = "identify"

\* the positions of the items of the request that have a value
ValuedItems ==
    {k \in DOMAIN response.items : response.items[k].trait_value # NullValue}

\* the first value the request gives the key plan, if it gives one
FirstValueOf(key) ==
    LET at == {k \in ValuedItems : response.items[k].trait_key = key}
    IN  IF at = {} THEN NullValue
        ELSE response.items[CHOOSE k \in at : \A j \in at : k <= j].trait_value

C14_NothingStoredWithoutPersistence ==
    (Identified /\ response.status = 200 /\ ~organisation.persist_trait_data) =>
        /\ identity_traits[response.identity] = response.before
        /\ Len(response.trait_models) = Cardinality(ValuedItems)
        /\ \A k \in DOMAIN response.trait_models :
              \E j \in ValuedItems :
                 /\ Cardinality({x \in ValuedItems : x <= j}) = k
                 /\ response.trait_models[k].trait_key = response.items[j].trait_key
                 /\ trait_value(response.trait_models[k].data)
                        = response.items[j].trait_value
        /\ result.called =>
              /\ response.flags = result.flags
              /\ \A f \in Features : CandidatesOf(f) # {} => Returned(f) # {}
              /\ \A s \in result.segments :
                    does_identity_match([id |-> s, rules |-> segments[s]],
                        response.identity,
                        IF FirstValueOf("plan") = NullValue THEN EmptyDict
                        ELSE Put(EmptyDict, "plan",
                                 generate_trait_value_data(FirstValueOf("plan"))))

\* a request whose traits would change the stored ones, answered with a trait
\* and with the environment-default of a feature that has an override for a
\* segment the stored traits match and the incoming ones do not
C14_Witness ==
    /\ Identified
    /\ response.status = 200
    /\ ~organisation.persist_trait_data
    /\ result.called
    /\ Len(response.trait_models) >= 1
    /\ traits_after_update(response.before, response.items) # response.before
    /\ identity_traits[response.identity] = response.before
    /\ \E k \in DOMAIN response.flags, fs \in feature_states :
         /\ IsEnvironmentDefault(response.flags[k])
         /\ fs.feature = response.flags[k].feature
         /\ IsSegmentOverride(fs)
         /\ does_identity_match(
                [id |-> feature_segment_of(fs).segment,
                 rules |-> segments[feature_segment_of(fs).segment]],
                response.identity, response.before)
         /\ \E j \in DOMAIN cache_get(environment_segments_cache, CalledEnvironment) :
                cache_get(environment_segments_cache, CalledEnvironment)[j].id
                    = feature_segment_of(fs).segment

\* ------------------------------------------------------------------------
\* C15: an identify request that carries traits is rejected with 400 when the
\* environment has allow_client_traits false and the request came with the
\* client key, and accepted with 200 in every other case; a rejected request
\* changes no stored trait.
\* ------------------------------------------------------------------------
C15_ClientTraitsRejected ==
    Identified =>
        LET allow == environments[IdentityEnvironment[response.identity]].allow_client_traits
        IN  /\ response.status \in {200, 400}
            /\ response.status = 400 <=>
                  /\ response.items # <<>>
                  /\ ~allow
                  /\ response.originated_from = "CLIENT"
            /\ response.status = 400 =>
                  identity_traits[response.identity] = response.before

\* a request with traits and the client key, rejected
C15_Witness ==
    /\ Identified
    /\ response.status = 400
    /\ response.originated_from = "CLIENT"
    /\ response.items # <<>>

\* a request with traits and a server-side key, accepted though
\* allow_client_traits is false
C15_WitnessServerKey ==
    /\ Identified
    /\ response.status = 200
    /\ response.originated_from = "SERVER"
    /\ response.items # <<>>
    /\ ~environments[IdentityEnvironment[response.identity]].allow_client_traits

\* ------------------------------------------------------------------------
\* C16: clone copies every feature state of the source environment that has no
\* identity into the clone, with the clone of its feature segment, and copies
\* no identity-override; the feature states and feature segments of the source
\* and the traits of the identities are as before the clone.
\* ------------------------------------------------------------------------
Cloned == response.called /\ response.request = "clone"

StatesOf(e) == {fs \in feature_states : fs.environment = e}

\* c is a copy of fs in environment e
IsCopyOf(c, fs, e) ==
    /\ c.environment = e
    /\ c.feature = fs.feature
    /\ c.identity = fs.identity
    /\ c.enabled = fs.enabled
    /\ c.version = fs.version
    /\ c.live_from = fs.live_from
    /\ (fs.feature_segment = None) = (c.feature_segment = None)
    /\ fs.feature_segment # None =>
          /\ feature_segment_of(c).environment = e
          /\ feature_segment_of(c).segment = feature_segment_of(fs).segment
          /\ feature_segment_of(c).feature = feature_segment_of(fs).feature
          /\ feature_segment_of(c).priority = feature_segment_of(fs).priority

C16_CloneLeavesIdentitiesOut ==
    Cloned =>
        LET source == response.source
            e == response.environment
            copied == {fs \in StatesOf(source) : fs.identity = None}
        IN  /\ \A fs \in copied : \E c \in StatesOf(e) : IsCopyOf(c, fs, e)
            /\ \A c \in StatesOf(e) :
                  /\ c.identity = None
                  /\ \E fs \in copied : IsCopyOf(c, fs, e)
            /\ Cardinality(StatesOf(e)) = Cardinality(copied)
            /\ feature_states \ StatesOf(e) = response.feature_states
            /\ {g \in feature_segments : g.environment # e} = response.feature_segments
            /\ identity_traits = response.identity_traits

\* the source has an identity-override, a segment-override and a default;
\* the clone has the two without identity
C16_Witness ==
    /\ Cloned
    /\ \E fs \in StatesOf(response.source) : fs.identity # None
    /\ \E fs \in StatesOf(response.source) : IsSegmentOverride(fs)
    /\ \E fs \in StatesOf(response.source) : IsEnvironmentDefault(fs)
    /\ Cardinality(StatesOf(response.environment)) = 2

\* ------------------------------------------------------------------------
\* C17: after an environment is created it has exactly one feature state for
\* each feature of its project, with no identity and no feature segment,
\* enabled false when the project has prevent_flag_defaults and the feature's
\* default_enabled otherwise.
\* ------------------------------------------------------------------------
EnvironmentCreated == response.called /\ response.request = "create_environment"

C17_OneDefaultPerFeature ==
    EnvironmentCreated =>
        \A f \in Features :
            LET states == {fs \in StatesOf(response.environment) : fs.feature = f}
            IN  /\ Cardinality(states) = 1
                /\ \A fs \in states :
                      /\ fs.identity = None
                      /\ fs.feature_segment = None
                      /\ fs.enabled = IF project.prevent_flag_defaults THEN FALSE
                                      ELSE FeatureDefaultEnabled[f]

\* an environment created in a project with prevent_flag_defaults: the state
\* of a feature with default_enabled is disabled
C17_Witness ==
    /\ EnvironmentCreated
    /\ project.prevent_flag_defaults
    /\ \E fs \in StatesOf(response.environment) :
         FeatureDefaultEnabled[fs.feature] /\ ~fs.enabled

\* ------------------------------------------------------------------------
\* C18: for a segment with one ALL rule holding one PERCENTAGE_SPLIT condition
\* of value p, the identity matches the segment iff the hashed percentage of
\* [segment.id, identity.id] is strictly below p; an identity whose percentage
\* is p or above gets the environment-default, not the segment-override.
\* ------------------------------------------------------------------------
IsSplitSegment(s) ==
    /\ Len(segments[s]) = 1
    /\ segments[s][1].type = "ALL"
    /\ segments[s][1].rules = <<>>
    /\ Len(segments[s][1].conditions) = 1
    /\ segments[s][1].conditions[1].operator = "PERCENTAGE_SPLIT"

SplitValueOf(s) == segments[s][1].conditions[1].value

PercentageOf(s) == get_hashed_percentage_for_object_ids(<<s, result.identity>>)

C18_SplitStrictlyBelow ==
    result.called =>
        \A s \in SegmentIds :
            IsSplitSegment(s) =>
                /\ MatchesSegment(s) <=> PercentageOf(s) < SplitValueOf(s)
                /\ s \in result.segments => PercentageOf(s) < SplitValueOf(s)
                /\ PercentageOf(s) >= SplitValueOf(s) =>
                      \A f \in Features :
                          /\ \A fs \in ReturnedStates(f) :
                                ~(/\ IsSegmentOverride(fs)
                                  /\ feature_segment_of(fs).segment = s)
                          /\ (/\ \E fs \in LiveStates(f) : IsEnvironmentDefault(fs)
                              /\ \A fs \in LiveStates(f) :
                                    /\ fs.identity = None
                                    /\ fs.feature_segment # None
                                         => feature_segment_of(fs).segment = s)
                             => \E fs \in ReturnedStates(f) : IsEnvironmentDefault(fs)

\* the percentage of the identity is the value of the split: the feature has a
\* live override of the segment, and the default is returned
C18_Witness ==
    /\ result.called
    /\ \E s \in SegmentIds :
         /\ IsSplitSegment(s)
         /\ PercentageOf(s) = SplitValueOf(s)
         /\ \E fs \in feature_states :
              /\ IsLive(fs)
              /\ IsSegmentOverride(fs)
              /\ feature_segment_of(fs).segment = s
              /\ \E r \in ReturnedStates(fs.feature) : IsEnvironmentDefault(r)

\* the percentage of the identity is one below the value: the override is
\* returned
C18_WitnessBelow ==
    /\ result.called
    /\ \E s \in SegmentIds :
         /\ IsSplitSegment(s)
         /\ PercentageOf(s) + 1 = SplitValueOf(s)
         /\ \E r \in UNION {ReturnedStates(f) : f \in Features} :
              IsSegmentOverride(r) /\ feature_segment_of(r).segment = s

\* ------------------------------------------------------------------------
\* C20: a rule evaluates its conditions by its type (ALL: every condition
\* matches, ANY: at least one, NONE: none) and combines that with its child
\* rules, evaluated the same way; the identity matches a segment iff every
\* top-level rule of the segment is true.
\* ------------------------------------------------------------------------
ConditionHolds(condition, s) ==
    condition_matches(condition, s, result.identity, CalledTraits)

\* a rule without child rules
LeafRuleHolds(rule, s) ==
    \/ rule.conditions = <<>>
    \/ /\ rule.type = "ALL"
       /\ \A k \in DOMAIN rule.conditions : ConditionHolds(rule.conditions[k], s)
    \/ /\ rule.type = "ANY"
       /\ \E k \in DOMAIN rule.conditions : ConditionHolds(rule.conditions[k], s)
    \/ /\ rule.type = "NONE"
       /\ \A k \in DOMAIN rule.conditions : ~ConditionHolds(rule.conditions[k], s)

\* a rule whose child rules have no child rules
RuleHolds(rule, s) ==
    \/ rule.conditions = <<>> /\ rule.rules = <<>>
    \/ /\ rule.type = "ALL"
       /\ \A k \in DOMAIN rule.conditions : ConditionHolds(rule.conditions[k], s)
       /\ \A k \in DOMAIN rule.rules : LeafRuleHolds(rule.rules[k], s)
    \/ /\ rule.type = "ANY"
       /\ \/ \E k \in DOMAIN rule.conditions : ConditionHolds(rule.conditions[k], s)
          \/ \E k \in DOMAIN rule.rules : LeafRuleHolds(rule.rules[k], s)
    \/ /\ rule.type = "NONE"
       /\ rule.conditions # <<>> \/ rule.rules # <<>>
       /\ \A k \in DOMAIN rule.conditions : ~ConditionHolds(rule.conditions[k], s)
       /\ \A k \in DOMAIN rule.rules : LeafRuleHolds(rule.rules[k], s)

C20_RuleTree ==
    result.called =>
        \A s \in SegmentIds :
            /\ MatchesSegment(s) <=>
                  \A k \in DOMAIN segments[s] : RuleHolds(segments[s][k], s)
            /\ s \in result.segments =>
                  \A k \in DOMAIN segments[s] : RuleHolds(segments[s][k], s)

\* an ANY rule whose own condition fails and whose child rule holds: the
\* identity matches the segment and gets its override
C20_Witness ==
    /\ result.called
    /\ \E s \in result.segments :
         /\ Len(segments[s]) = 1
         /\ segments[s][1].type = "ANY"
         /\ segments[s][1].rules # <<>>
         /\ \A k \in DOMAIN segments[s][1].conditions :
               ~ConditionHolds(segments[s][1].conditions[k], s)
         /\ segments[s][1].conditions # <<>>
         /\ \E r \in UNION {ReturnedStates(f) : f \in Features} :
              IsSegmentOverride(r) /\ feature_segment_of(r).segment = s

\* ------------------------------------------------------------------------
\* C19: the multivariate value is the value of the option whose range
\* [running_total, running_total + allocation), over the options in ascending
\* option id, holds the bucket hashed from the hash key of the identity (the
\* composite key under use_mv_v2_evaluation, the id otherwise) and the
\* feature; when the bucket is in no range the base value is returned.
\* ------------------------------------------------------------------------
Evaluated == response.called /\ response.request = "multivariate"

\* the allocations of the options before option o
RunningTotal(o) == total_allocation({x \in response.options : x.id < o.id})

Bucket ==
    get_hashed_percentage_for_object_ids(
        (IF response.use_mv_v2_evaluation
         THEN <<ApiKey[IdentityEnvironment[response.identity]],
                Identifier[response.identity]>>
         ELSE <<response.identity>>) \o <<response.feature>>)

InRange(o) ==
    RunningTotal(o) <= Bucket /\ Bucket < RunningTotal(o) + o.percentage_allocation

C19_OptionOfTheBucket ==
    Evaluated =>
        /\ \A o \in response.options : InRange(o) => response.value = o.value
        /\ (\A o \in response.options : ~InRange(o)) => response.value = BaseValue

\* two options, the bucket at the start of the range of the second
C19_Witness ==
    /\ Evaluated
    /\ \E o \in response.options :
         /\ RunningTotal(o) = Bucket
         /\ RunningTotal(o) > 0
         /\ InRange(o)
         /\ response.value = o.value

\* the allocations sum to less than 100 and the bucket is in the remainder
C19_WitnessRemainder ==
    /\ Evaluated
    /\ response.options # {}
    /\ \A o \in response.options : ~InRange(o)
    /\ response.value = BaseValue

\* ------------------------------------------------------------------------
\* C21: get_segments returns exactly the candidate segments the identity
\* matches, in the order of the candidate list; with overrides_only the
\* candidates are the segments that have an override in the environment of the
\* identity, otherwise all segments of the project; the traits passed to the
\* call replace the stored traits, an empty list included
\* ------------------------------------------------------------------------

GotSegments == response.called /\ response.request = "get_segments"

CandidateSegments ==
    IF response.overrides_only
    THEN segments_with_override(IdentityEnvironment[response.identity])
    ELSE [s \in 1..Cardinality(SegmentIds) |-> [id |-> s, rules |-> segments[s]]]

EvaluatedTraits ==
    IF response.traits.is_none
    THEN identity_traits[response.identity]
    ELSE response.traits.items

C21_MatchingCandidatesInOrder ==
    GotSegments =>
        response.segments =
            SelectSeq(CandidateSegments,
                      LAMBDA segment :
                        does_identity_match(segment, response.identity, EvaluatedTraits))

\* ------------------------------------------------------------------------
\* C22: the staleness of the cached environments and of the cached override
\* segments is bounded: an entry that differs from what the database holds
\* was written with an explicit timeout, or the write that made it stale has
\* an invalidation of its key under way; this for the client api key and for
\* the server-side key
\* ------------------------------------------------------------------------

StaleEnvironmentKeys ==
    {k \in DOMAIN environment_cache :
        environment_cache[k].environment # environment_of_key(k)}

StaleSegmentsKeys ==
    {e \in DOMAIN environment_segments_cache :
        /\ environment_segments_cache[e] # <<>>
        /\ environment_segments_cache[e] # segments_with_override(e)}

InvalidationUnderWay(k) ==
    \E r \in Requests :
        requests[r].pc = "clear_environment_cache" /\ requests[r].initial_api_key = k

C22_BoundedStaleness ==
    /\ \A k \in StaleEnvironmentKeys :
            \/ environment_cache[k].timeout = "ENVIRONMENT_CACHE_SECONDS"
            \/ InvalidationUnderWay(k)
    /\ \A e \in StaleSegmentsKeys :
            environment_segments_cache_timeout # "DEFAULT_TIMEOUT"

\* ------------------------------------------------------------------------
\* C30: get_from_cache missed and rebuilt the entry of a client api key while
\* the environment of that key was updated: once both requests are done the
\* entry is absent or holds the environment as updated, and no entry ever
\* mixes the fields of two versions of the environment
\* ------------------------------------------------------------------------

RebuiltAndUpdated(k) ==
    /\ requests[ReadingRequest].pc = "done"
    /\ requests[ReadingRequest].rebuilt
    /\ requests[ReadingRequest].api_key = k
    /\ requests[UpdatingRequest].pc = "done"
    /\ k = ApiKey[requests[UpdatingRequest].environment]

C30_RebuildDuringUpdate ==
    /\ \A k \in {ApiKey[e] : e \in Environments} :
            RebuiltAndUpdated(k) =>
                \/ k \notin DOMAIN environment_cache
                \/ environment_cache[k].environment = environment_of_key(k)
    /\ \A k \in DOMAIN environment_cache :
            environment_cache[k].environment.fields \in EnvironmentVersions

\* ------------------------------------------------------------------------
\* C23: a feature state with both an identity and a feature segment set is
\* ranked as an identity-override: for the identity it names the returned
\* state of its feature is a state of that identity, whatever segment-overrides
\* and default exist, and for any other identity it is no candidate
\* ------------------------------------------------------------------------

HasBothSet(fs) == fs.identity # None /\ fs.feature_segment # None

C23_BothSetIsAnIdentityOverride ==
    result.called =>
        \A fs \in feature_states :
            HasBothSet(fs) /\ IsLive(fs) /\ fs.environment = CalledEnvironment =>
                IF fs.identity = result.identity
                THEN /\ ReturnedStates(fs.feature) # {}
                     /\ \A r \in ReturnedStates(fs.feature) :
                            r.identity = result.identity
                ELSE fs \notin result.candidates

\* ------------------------------------------------------------------------
\* C24: add_users_by_id with a list that holds an id that is no user of the
\* organisation of the group raises FFAdminUser.DoesNotExist and adds no user,
\* also when other ids of the list are users of the organisation; a call that
\* raises nothing leaves exactly one membership for every user of the list
\* ------------------------------------------------------------------------

AddedUsers == response.called /\ response.request = "add_users_by_id"

IsOfOrganisation(u, o) ==
    \E row \in user_organisations : row.user = u /\ row.organisation = o

Memberships(g, u) == Cardinality({k \in DOMAIN permission_group_users[g] :
                                    permission_group_users[g][k] = u})

C24_ForeignUserRejected ==
    AddedUsers =>
        LET g == response.group
        IN  /\ (\E k \in DOMAIN response.user_ids :
                    ~IsOfOrganisation(response.user_ids[k], GroupOrganisation[g]))
                => /\ response.raised = "FFAdminUser.DoesNotExist"
                   /\ permission_group_users[g] = response.users_before
            /\ response.raised = "None" =>
                    \A k \in DOMAIN response.user_ids :
                        Memberships(g, response.user_ids[k]) = 1

\* ------------------------------------------------------------------------
\* C29: is_organisation_admin answers the same for an organisation passed as
\* an object and passed as organisation_id: true exactly when the membership
\* of the user in that organisation has the role ADMIN; with neither or both
\* arguments it raises ValueError
\* ------------------------------------------------------------------------

AskedAdmin == response.called /\ response.request = "is_organisation_admin"

AskedOrganisation ==
    IF response.organisation # None THEN response.organisation
    ELSE response.organisation_id

C29_AdminByObjectOrById ==
    AskedAdmin =>
        IF (response.organisation = None) = (response.organisation_id = None)
        THEN response.raised = "ValueError"
        ELSE /\ response.raised = "None"
             /\ (response.value = "True") <=>
                    \E row \in user_organisations :
                        /\ row.user = response.user
                        /\ row.organisation = AskedOrganisation
                        /\ row.role = "ADMIN"

\* ------------------------------------------------------------------------
\* C25: run_tasks returns one task run for each task it fetched, in fetch
\* order; the result of a run is SUCCESS exactly when the run of the task did
\* not raise, else FAILURE with error details and one more failure counted on
\* the task; the tasks after a task that raised are run all the same, and
\* completed, num_failures and is_locked of every fetched task are written
\* back. With num_tasks < 1 the call raises ValueError and runs nothing.
\* ------------------------------------------------------------------------

RanTasks == response.called /\ response.request = "run_tasks"

C25_OneRunPerFetchedTask ==
    RanTasks =>
        IF response.num_tasks < 1
        THEN /\ response.raised = "ValueError"
             /\ response.task_runs = <<>>
             /\ tasks = response.before
        ELSE /\ response.raised = "None"
             /\ Len(response.task_runs) = Len(response.fetched)
             /\ response.written = response.fetched
             /\ \A k \in DOMAIN response.fetched :
                    LET id == response.fetched[k]
                        run == response.task_runs[k]
                        raised == id \in response.failing
                    IN  /\ run.task = id
                        /\ run.result = IF raised THEN "FAILURE" ELSE "SUCCESS"
                        /\ raised => run.error_details
                        /\ tasks[id].is_locked = FALSE
                        /\ tasks[id].completed = ~raised
                        /\ tasks[id].num_failures =
                                response.before[id].num_failures
                                    + (IF raised THEN 1 ELSE 0)
                        /\ tasks[id].task_runs = response.before[id].task_runs + 1
             /\ \A id \in DOMAIN tasks :
                    id \notin Range(response.fetched) => tasks[id] = response.before[id]

\* two tasks were fetched, the first raised and the second succeeded
C25_Witness ==
    /\ RanTasks
    /\ Len(response.fetched) = 2
    /\ response.task_runs[1].result = "FAILURE"
    /\ response.task_runs[2].result = "SUCCESS"
    /\ tasks[response.fetched[2]].completed

\* a call with num_tasks = 0 when tasks are waiting
C25_WitnessValueError ==
    /\ RanTasks
    /\ response.num_tasks < 1
    /\ \E id \in DOMAIN tasks : ~tasks[id].completed /\ tasks[id].num_failures = 0

\* ------------------------------------------------------------------------
\* C26: after run_recurring_tasks every task it fetched is deleted (it was
\* not registered, and was not run) or has had is_locked written back; a
\* fetched task that is registered and should not execute is not run and is
\* written back all the same, so no fetched task stays locked
\* ------------------------------------------------------------------------

RanRecurringTasks ==
    response.called /\ response.request = "run_recurring_tasks" /\ response.raised = "None"

C26_NoFetchedTaskStaysLocked ==
    RanRecurringTasks =>
        \A k \in DOMAIN response.fetched :
            LET id == response.fetched[k]
                was_run == \E j \in DOMAIN response.task_runs :
                                response.task_runs[j].task = id
            IN  IF id \notin response.registered
                THEN id \notin DOMAIN recurring_tasks /\ ~was_run
                ELSE /\ id \in Range(response.written)
                     /\ ~recurring_tasks[id].is_locked
                     /\ was_run = (id \in response.due)

\* ------------------------------------------------------------------------
\* C27: trigger_identity_migration, start_identity_migration and
\* finish_identity_migration each succeed at most once on a
\* DynamoProjectMetadata: a call of an operation that succeeded before raises
\* AttributeError, saves nothing and leaves triggered_at, migration_start_time
\* and migration_end_time as they were
\* ------------------------------------------------------------------------

MigrationCalled ==
    /\ response.called
    /\ response.request \in {"trigger_identity_migration", "start_identity_migration",
                             "finish_identity_migration"}

C27_EachOperationOnce ==
    MigrationCalled =>
        IF response.before[response.field] # "None"
        THEN /\ response.raised = "AttributeError"
             /\ project_metadata[response.project] = response.before
             /\ project_metadata_table = response.table_before
        ELSE /\ response.raised = "None"
             /\ project_metadata[response.project][response.field] # "None"

\* finish_identity_migration was called a second time, at a later time
C27_Witness ==
    /\ MigrationCalled
    /\ response.request = "finish_identity_migration"
    /\ response.raised = "AttributeError"
    /\ response.before.migration_end_time # isoformat(now)

\* ------------------------------------------------------------------------
\* C28: over any sequence of trigger, start and finish the status of a
\* DynamoProjectMetadata only moves forward in the order MIGRATION_NOT_STARTED,
\* MIGRATION_SCHEDULED, MIGRATION_IN_PROGRESS, MIGRATION_COMPLETED, and when
\* finish_identity_migration returns without error the status is
\* MIGRATION_COMPLETED
\* ------------------------------------------------------------------------

StatusRank(metadata) ==
    CHOOSE k \in DOMAIN MigrationStatuses :
        MigrationStatuses[k] = identity_migration_status(metadata)

StatusMovesForward ==
    \A p \in DOMAIN project_metadata :
        /\ p \in DOMAIN project_metadata'
        /\ StatusRank(project_metadata'[p]) >= StatusRank(project_metadata[p])

FinishedMigration ==
    /\ MigrationCalled
    /\ response.request = "finish_identity_migration"
    /\ response.raised = "None"

C28_StatusOnlyForward ==
    [][/\ StatusMovesForward
       /\ FinishedMigration' =>
            identity_migration_status(project_metadata'[response'.project])
                = "MIGRATION_COMPLETED"]_vars

====
